---- MODULE Spec2Model ----
(***************************************************************************)
(* Freya Node-RED nodes: the deadband controllers (temperature, humidity,  *)
(* edge-triggered humidity), the precipitation controller in its two       *)
(* versions, the circadian core in its two versions, the lighting          *)
(* controller, the two bang-bang controllers and the P-controller class,   *)
(* as state machines driven by inbound messages, method calls and timers.  *)
(*                                                                         *)
(* Time is counted in whole seconds for the deadband controllers.  A       *)
(* pending one-shot timer is a countdown; time does not advance past a     *)
(* due timer, but a message may still be handled before the due timer's    *)
(* callback runs.                                                          *)
(***************************************************************************)
EXTENDS Integers, Sequences, FiniteSets, TLC

(***************************************************************************)
(* JavaScript values.  A value is a record with its type tag; NaN is a     *)
(* value whose typeof is 'number' and for which every comparison is false. *)
(***************************************************************************)
Num(n) == [t |-> "number", v |-> n]

NaN == [t |-> "NaN", v |-> 0]

undefined == [t |-> "undefined", v |-> 0]

StringValue == [t |-> "string", v |-> 0]

JsTrue == [t |-> "boolean", v |-> 1]

JsFalse == [t |-> "boolean", v |-> 0]

Null == [t |-> "null", v |-> 0]

typeof(x) == IF x.t \in {"number", "NaN"} THEN "number" ELSE x.t

IsNum(x) == x.t = "number"

\* a < b on JavaScript numbers: false as soon as one side is NaN
Lt(a, b) == IsNum(a) /\ IsNum(b) /\ a.v < b.v

\* a > b on JavaScript numbers
Gt(a, b) == IsNum(a) /\ IsNum(b) /\ a.v > b.v

\* a - b and a + b on JavaScript numbers
Minus(a, b) == IF IsNum(a) /\ IsNum(b) THEN Num(a.v - b.v) ELSE NaN

Plus(a, b) == IF IsNum(a) /\ IsNum(b) THEN Num(a.v + b.v) ELSE NaN

\* x || d for a numeric x: 0 and NaN are falsy
OrDefault(x, d) == IF IsNum(x) /\ x.v # 0 THEN x ELSE d

(***************************************************************************)
(* Bounds of the model.                                                    *)
(***************************************************************************)
MaxVal == 8

MaxElapsed == 4

Values == 0..MaxVal

\* sensor payloads: every number of the range, NaN, and non-numbers
SensorPayloads == {Num(n) : n \in Values} \cup {NaN, StringValue, JsTrue}

\* targets: below the lower limit, between the limits, above the upper limit
TargetValues == {0, 4, MaxVal}

TargetPayloads == {Num(n) : n \in TargetValues} \cup {NaN, StringValue}

(***************************************************************************)
(* The three dual-deadband controllers.                                    *)
(*   temperature   src/nodes/temperature-controller/                       *)
(*                     temperature-controller-node.ts                      *)
(*   humidity      src/nodes/humidity-controller/humidity-controller-node.ts*)
(*   humidityEdge  src/unnamed/part_005 (status sent on state change only) *)
(* The command record's fields low/high stand for heater/cooler and        *)
(* humidifier/dehumidifier.                                                *)
(***************************************************************************)
Variants == {"temperature", "humidity", "humidityEdge"}

LowState(v) == IF v = "temperature" THEN "heating" ELSE "humidifying"

HighState(v) == IF v = "temperature" THEN "cooling" ELSE "dehumidifying"

MinOverrideText(v) == IF v = "temperature" THEN "minimum temperature" ELSE "minimum humidity"

MaxOverrideText(v) == IF v = "temperature" THEN "maximum temperature" ELSE "maximum humidity"

\* the defaults of the constructor's  parseFloat(config.x) || default
DefaultDeadband(v) == IF v = "temperature" THEN 1 ELSE 2

DefaultMinimum(v) == IF v = "temperature" THEN 10 ELSE 0

DefaultMaximum(v) == IF v = "temperature" THEN 50 ELSE 100

DefaultWatchdogTimeout == 60

\* configurations given to the constructor (editor values, already numeric)
RawConfig(d, lo, hi, t, sev) ==
  [deadband |-> d, minimum |-> lo, maximum |-> hi, watchdogTimeout |-> t,
   watchdogSeverity |-> sev]

RawConfigs ==
  {RawConfig(1, 2, 6, 2, ""), RawConfig(0, 0, 0, 2, "error")}

\* the constructor's configuration parsing; config is the definition object
\* the constructor was given
ParseConfig(v, c) ==
  [config           |-> c,
   deadband         |-> OrDefault(Num(c.deadband), Num(DefaultDeadband(v))).v,
   minimum          |-> OrDefault(Num(c.minimum), Num(DefaultMinimum(v))).v,
   maximum          |-> OrDefault(Num(c.maximum), Num(DefaultMaximum(v))).v,
   watchdogTimeout  |-> OrDefault(Num(c.watchdogTimeout), Num(DefaultWatchdogTimeout)).v,
   watchdogSeverity |-> IF c.watchdogSeverity = "" THEN "warning" ELSE c.watchdogSeverity]

VARIABLES
  variant,        \* which controller this instance is
  node,           \* the parsed configuration stored on the node
  state,          \* the ControllerState object
  watchdog,       \* seconds until the pending watchdog timeout fires, -1 if none pending
  closed,         \* the node has been closed
  event,          \* the last step: its kind and, for an input, the message handled
  pre,            \* the mode fields of the ControllerState before the last reaction
  sent,           \* what the last reaction sent on outputs 1 and 2
  lastCommand,    \* the most recent actuator command sent on output 1
  statusLog,      \* the states of the two most recent status messages sent on output 2,
                  \* and the safetyOverride of the most recent one
  watchdogFires,  \* watchdog timeouts fired since the last accepted sensor reading
  elapsed,        \* seconds since the last accepted sensor reading (or construction), capped
  now,            \* precipitation controller: Date.now(), in milliseconds since construction
  offTimer,       \* milliseconds until the pending pump off-timer fires, -1 if none pending
  tickTimer,      \* milliseconds until the tick interval fires next, -1 if not running
  timerLog,       \* superseded: a timer was started while a timer for the same purpose
                  \* was still pending and had not been cancelled; replaced: a timer was
                  \* started after the pending one had been cancelled through its handle
  pumpLog         \* when the pump was last switched on, the duration then in effect,
                  \* and when it was switched on the time before (-1 if never)

\* the variables only the timer-driven nodes (precipitation, circadian core) use
pvars == <<now, offTimer, tickTimer, pumpLog>>

\* the variables only the deadband controllers use
dvars == <<watchdog, pre, watchdogFires, elapsed>>

vars == <<variant, node, state, closed, event, sent, lastCommand, statusLog, timerLog,
          dvars, pvars>>

NoMsg == [topic |-> "none"]

Command(low, high) == [topic |-> "actuators", low |-> low, high |-> high]

\* a status message; fields that only copy state or configuration
\* (target, reading, deadband, timestamp, message) are not represented
Status(st, override, severity) ==
  [topic |-> "status", state |-> st, safetyOverride |-> override, severity |-> severity]

InitialState(v) ==
  [current             |-> undefined,
   target              |-> undefined,
   currentState        |-> "idle",
   safetyOverride      |-> "null",
   watchdogTimer       |-> FALSE,
   openLoopMode        |-> FALSE,
   previousStatusState |-> IF v = "humidityEdge" THEN "idle" ELSE "null"]

NoTimers == [superseded |-> FALSE, replaced |-> FALSE]

\* setTimeout / setInterval for a purpose whose timer is pending or not,
\* after clearTimeout / clearInterval on the handle if the handle is set
StartTimer(pending, handle) ==
  [superseded |-> timerLog.superseded \/ (pending /\ ~handle),
   replaced   |-> timerLog.replaced \/ (pending /\ handle)]

NoPump == [onAt |-> -1, duration |-> -1, previousOnAt |-> -1]

\* the fields of the state a reaction's outcome depends on besides the values
Mode(st) ==
  [currentState |-> st.currentState, safetyOverride |-> st.safetyOverride,
   openLoopMode |-> st.openLoopMode]

InitDeadband ==
  /\ variant \in Variants
  /\ \E c \in RawConfigs : node = ParseConfig(variant, c)
  /\ state = InitialState(variant)
  /\ watchdog = -1
  /\ closed = FALSE
  /\ event = [kind |-> "construct", topic |-> "none", payload |-> undefined]
  /\ pre = Mode(InitialState(variant))
  /\ sent = <<NoMsg, NoMsg>>
  /\ lastCommand = NoMsg
  /\ statusLog = <<"none", "none", "none">>
  /\ watchdogFires = 0
  /\ elapsed = 0
  /\ now = 0
  /\ offTimer = -1
  /\ tickTimer = -1
  /\ pumpLog = NoPump
  /\ timerLog = NoTimers

(***************************************************************************)
(* calculateControl: the control decision and its effect on the state.     *)
(* control.override is "none" where the source leaves it undefined.        *)
(***************************************************************************)
Control(low, high, st, override) ==
  [low |-> low, high |-> high, state |-> st, override |-> override]

\* the dual-deadband branch of calculateControl with the ride-to-target clauses left out
HysteresisNoRide(st, n, v) ==
  LET temp     == st.current
      target   == st.target
      deadband == OrDefault(Num(n.deadband), Num(DefaultDeadband(v)))
  IN  IF Lt(temp, Minus(target, deadband))
        THEN [state   |-> [st EXCEPT !.currentState = LowState(v)],
              control |-> Control("on", "off", LowState(v), "none")]
      ELSE IF Gt(temp, Plus(target, deadband))
        THEN [state   |-> [st EXCEPT !.currentState = HighState(v)],
              control |-> Control("off", "on", HighState(v), "none")]
      ELSE [state   |-> [st EXCEPT !.currentState = "idle"],
            control |-> Control("off", "off", "idle", "none")]

\* the dual-deadband branch with non-strict threshold comparisons (<=, >=)
HysteresisNonStrict(st, n, v) ==
  LET temp     == st.current
      target   == st.target
      deadband == OrDefault(Num(n.deadband), Num(DefaultDeadband(v)))
  IN  IF Lt(temp, Plus(Minus(target, deadband), Num(1)))
        THEN [state   |-> [st EXCEPT !.currentState = LowState(v)],
              control |-> Control("on", "off", LowState(v), "none")]
      ELSE IF Gt(temp, Minus(Plus(target, deadband), Num(1)))
        THEN [state   |-> [st EXCEPT !.currentState = HighState(v)],
              control |-> Control("off", "on", HighState(v), "none")]
      ELSE IF st.currentState = LowState(v) /\ Lt(temp, target)
        THEN [state   |-> st,
              control |-> Control("on", "off", LowState(v), "none")]
      ELSE IF st.currentState = HighState(v) /\ Gt(temp, target)
        THEN [state   |-> st,
              control |-> Control("off", "on", HighState(v), "none")]
      ELSE [state   |-> [st EXCEPT !.currentState = "idle"],
            control |-> Control("off", "off", "idle", "none")]

\* the dual-deadband branch of calculateControl (target as dividing line)
Hysteresis(st, n, v) ==
  LET temp     == st.current
      target   == st.target
      deadband == OrDefault(Num(n.deadband), Num(DefaultDeadband(v)))
  IN  IF Lt(temp, Minus(target, deadband))
        THEN [state   |-> [st EXCEPT !.currentState = LowState(v)],
              control |-> Control("on", "off", LowState(v), "none")]
      ELSE IF Gt(temp, Plus(target, deadband))
        THEN [state   |-> [st EXCEPT !.currentState = HighState(v)],
              control |-> Control("off", "on", HighState(v), "none")]
      ELSE IF st.currentState = LowState(v) /\ Lt(temp, target)
        THEN [state   |-> st,
              control |-> Control("on", "off", LowState(v), "none")]
      ELSE IF st.currentState = HighState(v) /\ Gt(temp, target)
        THEN [state   |-> st,
              control |-> Control("off", "on", HighState(v), "none")]
      ELSE [state   |-> [st EXCEPT !.currentState = "idle"],
            control |-> Control("off", "off", "idle", "none")]

\* calculateControl that does not clear safetyOverride back in the normal range
calculateControlKeepOverride(st, n, v) ==
  LET temp     == st.current
      minimum  == OrDefault(Num(n.minimum), Num(DefaultMinimum(v)))
      maximum  == OrDefault(Num(n.maximum), Num(DefaultMaximum(v)))
  IN  IF st.openLoopMode
        THEN [state |-> st, control |-> Control("off", "off", "open-loop", "none")]
      ELSE IF st.current = undefined \/ st.target = undefined
        THEN [state |-> st, control |-> Control("off", "off", "idle", "none")]
      ELSE IF Lt(temp, minimum)
        THEN [state   |-> [st EXCEPT !.safetyOverride = "min", !.currentState = LowState(v)],
              control |-> Control("on", "off", LowState(v), MinOverrideText(v))]
      ELSE IF Gt(temp, maximum)
        THEN [state   |-> [st EXCEPT !.safetyOverride = "max", !.currentState = HighState(v)],
              control |-> Control("off", "on", HighState(v), MaxOverrideText(v))]
      ELSE Hysteresis(st, n, v)

calculateControl(st, n, v) ==
  LET temp     == st.current
      minimum  == OrDefault(Num(n.minimum), Num(DefaultMinimum(v)))
      maximum  == OrDefault(Num(n.maximum), Num(DefaultMaximum(v)))
  IN  IF st.openLoopMode
        THEN [state |-> st, control |-> Control("off", "off", "open-loop", "none")]
      ELSE IF st.current = undefined \/ st.target = undefined
        THEN [state |-> st, control |-> Control("off", "off", "idle", "none")]
      ELSE IF Lt(temp, minimum)
        THEN [state   |-> [st EXCEPT !.safetyOverride = "min", !.currentState = LowState(v)],
              control |-> Control("on", "off", LowState(v), MinOverrideText(v))]
      ELSE IF Gt(temp, maximum)
        THEN [state   |-> [st EXCEPT !.safetyOverride = "max", !.currentState = HighState(v)],
              control |-> Control("off", "on", HighState(v), MaxOverrideText(v))]
      ELSE Hysteresis([st EXCEPT !.safetyOverride = "null"], n, v)

\* emitStatus that returns the message also when the state did not change
emitStatusAlways(st, newState, override) ==
  [state |-> [st EXCEPT !.previousStatusState = newState],
   msg   |-> Status(newState, override, "none")]

\* emitStatus of the edge-triggered controller: the message, or NoMsg for null,
\* and the state with previousStatusState updated
emitStatus(st, newState, override) ==
  IF newState = st.previousStatusState
    THEN [state |-> st, msg |-> NoMsg]
    ELSE [state |-> [st EXCEPT !.previousStatusState = newState],
          msg   |-> Status(newState, override, "none")]

\* control.override || null
OverrideOrNull(control) == IF control.override = "none" THEN "null" ELSE control.override

\* _executeControlLoop whose edge-triggered version sends the actuator command,
\* too, only when the state changed
executeControlLoopEdgeCommands(st, n, v) ==
  LET r == calculateControl(st, n, v)
      e == emitStatus(r.state, r.control.state, OverrideOrNull(r.control))
      cmd == Command(r.control.low, r.control.high)
  IN  IF v = "humidityEdge"
        THEN [state |-> e.state, out |-> <<IF e.msg = NoMsg THEN NoMsg ELSE cmd, e.msg>>]
        ELSE [state |-> r.state,
              out   |-> <<cmd, Status(r.control.state, OverrideOrNull(r.control), "none")>>]

\* _executeControlLoop: the state after it and the two messages it sends
executeControlLoop(st, n, v) ==
  LET r == calculateControl(st, n, v)
      e == emitStatus(r.state, r.control.state, OverrideOrNull(r.control))
      cmd == Command(r.control.low, r.control.high)
  IN  IF v = "humidityEdge"
        THEN [state |-> e.state, out |-> <<cmd, e.msg>>]
        ELSE [state |-> r.state,
              out   |-> <<cmd, Status(r.control.state, OverrideOrNull(r.control), "none")>>]

\* the watchdog timeout callback's messages
WatchdogCommand == Command("off", "off")

WatchdogStatus(n, v) ==
  Status(IF v = "humidityEdge" THEN "error" ELSE "open-loop", "null", n.watchdogSeverity)

\* the timeout handed to setTimeout, in seconds
WatchdogDelay(n) == OrDefault(Num(n.watchdogTimeout), Num(DefaultWatchdogTimeout)).v

\* bookkeeping of what a reaction sent
Record(out) ==
  /\ sent' = out
  /\ lastCommand' = IF out[1] # NoMsg THEN out[1] ELSE lastCommand
  /\ statusLog' = IF out[2] # NoMsg
                   THEN <<statusLog[2], out[2].state,
                          IF "safetyOverride" \in DOMAIN out[2]
                            THEN out[2].safetyOverride ELSE "null">>
                   ELSE statusLog

\* startWatchdog that does not cancel the pending timeout
startWatchdogNoClear(st) ==
  [state   |-> [st EXCEPT !.watchdogTimer = TRUE],
   timer   |-> WatchdogDelay(node),
   cleared |-> FALSE]

\* startWatchdog: the pending timeout is cancelled through its handle
\* (cleared), then a new one is scheduled
startWatchdog(st) ==
  [state   |-> [st EXCEPT !.watchdogTimer = TRUE],
   timer   |-> WatchdogDelay(node),
   cleared |-> st.watchdogTimer]

\* what updateTemperature / updateHumidity makes of a state: the state after
\* it and the two messages it sends
updateTemperatureResult(st, n, v, payload) ==
  executeControlLoop(startWatchdog([st EXCEPT !.current = payload,
                                              !.openLoopMode = FALSE]).state, n, v)

\* updateTemperature / updateHumidity
updateTemperature(payload) ==
  LET w   == startWatchdog([state EXCEPT !.current = payload, !.openLoopMode = FALSE])
      r   == updateTemperatureResult(state, node, variant, payload)
  IN  /\ state' = r.state
      /\ watchdog' = w.timer
      /\ timerLog' = StartTimer(watchdog >= 0, w.cleared)
      /\ Record(r.out)
      /\ watchdogFires' = 0
      /\ elapsed' = 0

\* a target handler that runs the control loop whenever a reading is stored,
\* open-loop or not
updateTargetResultAlways(st, n, v, payload) ==
  LET st1 == [st EXCEPT !.target = payload]
  IN  IF st.current # undefined
        THEN executeControlLoop(st1, n, v)
        ELSE [state |-> st1, out |-> <<NoMsg, NoMsg>>]

\* what a target message with a numeric payload makes of a state
updateTargetResult(st, n, v, payload) ==
  LET st1 == [st EXCEPT !.target = payload]
  IN  IF st.current # undefined /\ ~st.openLoopMode
        THEN executeControlLoop(st1, n, v)
        ELSE [state |-> st1, out |-> <<NoMsg, NoMsg>>]

\* a target message with a numeric payload
updateTarget(payload) ==
  LET r == updateTargetResult(state, node, variant, payload)
  IN  /\ state' = r.state
      /\ Record(r.out)
      /\ UNCHANGED <<watchdog, watchdogFires, elapsed, timerLog>>

\* node.on('input') that restarts the watchdog for a sensor message before
\* looking at the payload's type
InputRestartsWatchdogFirst(topic, payload) ==
  /\ variant \in Variants
  /\ ~closed
  /\ event' = [kind |-> "input", topic |-> topic, payload |-> payload]
  /\ pre' = Mode(state)
  /\ IF topic = "sensor"
       THEN IF typeof(payload) = "number"
              THEN updateTemperature(payload)
              ELSE /\ Record(<<NoMsg, NoMsg>>)
                   /\ state' = [state EXCEPT !.watchdogTimer = TRUE]
                   /\ watchdog' = WatchdogDelay(node)
                   /\ UNCHANGED <<watchdogFires, elapsed, timerLog>>
       ELSE IF typeof(payload) = "number"
              THEN updateTarget(payload)
              ELSE /\ Record(<<NoMsg, NoMsg>>)
                   /\ UNCHANGED <<state, watchdog, watchdogFires, elapsed, timerLog>>
  /\ UNCHANGED <<variant, node, closed, pvars>>

\* node.on('input')
Input(topic, payload) ==
  /\ variant \in Variants
  /\ ~closed
  /\ event' = [kind |-> "input", topic |-> topic, payload |-> payload]
  /\ pre' = Mode(state)
  /\ IF topic = "sensor"
       THEN IF typeof(payload) = "number"
              THEN updateTemperature(payload)
              ELSE /\ Record(<<NoMsg, NoMsg>>)
                   /\ UNCHANGED <<state, watchdog, watchdogFires, elapsed, timerLog>>
       ELSE IF typeof(payload) = "number"
              THEN updateTarget(payload)
              ELSE /\ Record(<<NoMsg, NoMsg>>)
                   /\ UNCHANGED <<state, watchdog, watchdogFires, elapsed, timerLog>>
  /\ UNCHANGED <<variant, node, closed, pvars>>

SensorMessage == \E p \in SensorPayloads : Input("sensor", p)

TargetMessage == \E p \in TargetPayloads : Input("target", p)

\* WatchdogFire with the forced command left out: only the status is sent
WatchdogFireStatusOnly ==
  /\ variant \in Variants
  /\ watchdog = 0
  /\ event' = [kind |-> "watchdog", topic |-> "none", payload |-> undefined]
  /\ pre' = Mode(state)
  /\ state' = [state EXCEPT !.openLoopMode = TRUE,
                            !.previousStatusState =
                               IF variant = "humidityEdge" THEN "error" ELSE @]
  /\ watchdog' = -1
  /\ Record(<<NoMsg, WatchdogStatus(node, variant)>>)
  /\ watchdogFires' = IF watchdogFires < 2 THEN watchdogFires + 1 ELSE watchdogFires
  /\ UNCHANGED <<variant, node, closed, elapsed, timerLog, pvars>>

\* WatchdogFire as a repeating timer: the timeout is armed again when it fires
WatchdogFireRearm ==
  /\ variant \in Variants
  /\ watchdog = 0
  /\ event' = [kind |-> "watchdog", topic |-> "none", payload |-> undefined]
  /\ pre' = Mode(state)
  /\ state' = [state EXCEPT !.openLoopMode = TRUE,
                            !.previousStatusState =
                               IF variant = "humidityEdge" THEN "error" ELSE @]
  /\ watchdog' = WatchdogDelay(node)
  /\ Record(<<WatchdogCommand, WatchdogStatus(node, variant)>>)
  /\ watchdogFires' = IF watchdogFires < 2 THEN watchdogFires + 1 ELSE watchdogFires
  /\ UNCHANGED <<variant, node, closed, elapsed, timerLog, pvars>>

\* a watchdog callback that also resets the controller to idle
WatchdogFireResets ==
  /\ variant \in Variants
  /\ watchdog = 0
  /\ event' = [kind |-> "watchdog", topic |-> "none", payload |-> undefined]
  /\ pre' = Mode(state)
  /\ state' = [state EXCEPT !.openLoopMode = TRUE, !.currentState = "idle",
                            !.previousStatusState =
                               IF variant = "humidityEdge" THEN "error" ELSE @]
  /\ watchdog' = -1
  /\ Record(<<WatchdogCommand, WatchdogStatus(node, variant)>>)
  /\ watchdogFires' = IF watchdogFires < 2 THEN watchdogFires + 1 ELSE watchdogFires
  /\ UNCHANGED <<variant, node, closed, elapsed, timerLog, pvars>>

\* the setTimeout callback of startWatchdog
WatchdogFire ==
  /\ variant \in Variants
  /\ watchdog = 0
  /\ event' = [kind |-> "watchdog", topic |-> "none", payload |-> undefined]
  /\ pre' = Mode(state)
  /\ state' = [state EXCEPT !.openLoopMode = TRUE,
                            !.previousStatusState =
                               IF variant = "humidityEdge" THEN "error" ELSE @]
  /\ watchdog' = -1
  /\ Record(<<WatchdogCommand, WatchdogStatus(node, variant)>>)
  /\ watchdogFires' = IF watchdogFires < 2 THEN watchdogFires + 1 ELSE watchdogFires
  /\ UNCHANGED <<variant, node, closed, elapsed, timerLog, pvars>>

\* a close that leaves the watchdog pending
CloseKeepsWatchdog ==
  /\ variant \in Variants
  /\ ~closed
  /\ closed' = TRUE
  /\ event' = [kind |-> "close", topic |-> "none", payload |-> undefined]
  /\ pre' = Mode(state)
  /\ Record(<<NoMsg, NoMsg>>)
  /\ UNCHANGED <<variant, node, state, watchdog, watchdogFires, elapsed, timerLog, pvars>>

\* node.on('close'): stopWatchdog
Close ==
  /\ variant \in Variants
  /\ ~closed
  /\ closed' = TRUE
  /\ event' = [kind |-> "close", topic |-> "none", payload |-> undefined]
  /\ pre' = Mode(state)
  /\ state' = [state EXCEPT !.watchdogTimer = FALSE]
  /\ watchdog' = IF state.watchdogTimer THEN -1 ELSE watchdog
  /\ Record(<<NoMsg, NoMsg>>)
  /\ UNCHANGED <<variant, node, watchdogFires, elapsed, timerLog, pvars>>

\* one second passes; not past a due timer
AdvanceSecond ==
  /\ variant \in Variants
  /\ watchdog # 0
  /\ elapsed < MaxElapsed \/ watchdog > 0
  /\ watchdog' = IF watchdog > 0 THEN watchdog - 1 ELSE watchdog
  /\ elapsed' = IF elapsed < MaxElapsed THEN elapsed + 1 ELSE elapsed
  /\ event' = [kind |-> "time", topic |-> "none", payload |-> undefined]
  /\ UNCHANGED <<variant, node, state, closed, pre, sent, lastCommand,
                 statusLog, watchdogFires, timerLog, pvars>>

(***************************************************************************)
(* The precipitation controller                                            *)
(* (src/nodes/precipitation-controller/precipitation-controller-node.ts)   *)
(* and its earlier version (src/unnamed/part_009, "precipitationLegacy"),  *)
(* which has one output and no status messages, pauses at night without a  *)
(* nightDisable option, and takes 'interval' messages in minutes and       *)
(* 'duration' messages in seconds.                                         *)
(* Times are in milliseconds.  Between two timer callbacks nothing reads   *)
(* the clock, so time advances from one timer deadline to the next.        *)
(***************************************************************************)
MaxNow == 150000

DefaultInterval == 60

DefaultDuration == 30

DefaultTickInterval == 60

MsPerMinute == 60000

MsPerSecond == 1000

PrecipitationRawConfigs ==
  {[interval |-> 1, duration |-> 30, tickInterval |-> 20, nightDisable |-> TRUE],
   [interval |-> 1, duration |-> 0, tickInterval |-> 50, nightDisable |-> FALSE]}

\* the constructor's configuration parsing
PrecipitationParseConfig(c) ==
  [interval     |-> OrDefault(Num(c.interval), Num(DefaultInterval)).v,
   duration     |-> OrDefault(Num(c.duration), Num(DefaultDuration)).v,
   tickInterval |-> OrDefault(Num(c.tickInterval), Num(DefaultTickInterval)).v,
   nightDisable |-> c.nightDisable]

PrecipitationInitialState(n) ==
  [lastPrecipitation |-> Null,
   pumpActive        |-> FALSE,
   offTimer          |-> FALSE,
   tickTimerId       |-> FALSE,
   intervalMs        |-> OrDefault(Num(n.interval), Num(DefaultInterval)).v * MsPerMinute,
   durationMs        |-> OrDefault(Num(n.duration), Num(DefaultDuration)).v * MsPerSecond,
   night             |-> FALSE,
   previousState     |-> "null"]

\* payloads of 'interval', 'duration' and 'night' messages
IntervalPayloads == {Num(30000), Num(1), NaN, StringValue}

DurationPayloads == {Num(10000), Num(0), NaN, StringValue}

NightPayloads == {JsTrue, JsFalse, Num(1)}

Pump(p) == [topic |-> "actuators", pump |-> p]

\* a status message of the precipitation controller (timestamp not represented)
PrecipitationStatus(st, duration, remaining) ==
  [topic |-> "status", state |-> st, duration |-> duration, remaining |-> remaining]

\* emitStatus that sends the status also when the state did not change
PrecipitationEmitStatusAlways(st, newState, remaining) ==
  [state |-> [st EXCEPT !.previousState = newState],
   msg   |-> PrecipitationStatus(newState, undefined, remaining)]

\* emitStatus: the state with previousState updated and the message sent on
\* output 2, NoMsg when nothing is sent
PrecipitationEmitStatus(st, newState, remaining) ==
  IF newState = st.previousState
    THEN [state |-> st, msg |-> NoMsg]
    ELSE [state |-> [st EXCEPT !.previousState = newState],
          msg   |-> PrecipitationStatus(newState, undefined, remaining)]

\* the delay of setTimeout/setInterval: a delay below 1 ms is run as 1 ms
TimerDelay(ms) == IF ms < 1 THEN 1 ELSE ms

\* the period of the tick interval, in milliseconds
TickMs(n) == OrDefault(Num(n.tickInterval), Num(DefaultTickInterval)).v * MsPerSecond

PrecipitationVariants == {"precipitation", "precipitationLegacy"}

\* the version of src/unnamed/part_009
Legacy == variant = "precipitationLegacy"

\* emitStatus of this version: the earlier version sends no status
VersionEmitStatus(st, newState, remaining) ==
  IF Legacy THEN [state |-> st, msg |-> NoMsg]
  ELSE PrecipitationEmitStatus(st, newState, remaining)

\* the constructor: emitStatus('idle'), startTickInterval
InitPrecipitation ==
  /\ variant \in PrecipitationVariants
  /\ \E c \in PrecipitationRawConfigs :
       /\ node = PrecipitationParseConfig(c)
       /\ LET e == VersionEmitStatus(PrecipitationInitialState(node), "idle", undefined)
          IN  /\ state = [e.state EXCEPT !.tickTimerId = TRUE]
              /\ sent = <<NoMsg, e.msg>>
              /\ statusLog = <<"none", IF e.msg = NoMsg THEN "none" ELSE e.msg.state,
                              IF e.msg = NoMsg THEN "none" ELSE "null">>
       /\ tickTimer = TimerDelay(TickMs(node))
  /\ closed = FALSE
  /\ event = [kind |-> "construct", topic |-> "none", payload |-> undefined]
  /\ lastCommand = NoMsg
  /\ now = 0
  /\ offTimer = -1
  /\ pumpLog = NoPump
  /\ timerLog = NoTimers
  /\ watchdog = -1
  /\ pre = Mode(InitialState("temperature"))
  /\ watchdogFires = 0
  /\ elapsed = 0

\* the night is never a reason to skip
NightPauseNever(st, n) == FALSE

\* the night test of evaluatePrecipitation
NightPause(st, n) == (Legacy \/ n.nightDisable) /\ st.night

\* precipitation is due at every evaluation
DueAlways(st, t) == TRUE

\* the test whether it is time to precipitate
Due(st, t) == st.lastPrecipitation = Null \/ t - st.lastPrecipitation.v >= st.intervalMs

\* the off-timer is scheduled after the interval instead of the duration
OffDelayInterval(st) == TimerDelay(st.intervalMs)

\* the delay of the off-timer scheduled when the pump is switched on
OffDelay(st) == TimerDelay(st.durationMs)

\* evaluatePrecipitation, run by the tick interval
evaluatePrecipitation ==
  IF state.pumpActive
    THEN /\ Record(<<NoMsg, NoMsg>>)
         /\ UNCHANGED <<state, offTimer, pumpLog, timerLog>>
  ELSE IF NightPause(state, node)
    THEN LET e == VersionEmitStatus(state, "paused", undefined)
         IN  /\ state' = e.state
             /\ Record(<<NoMsg, e.msg>>)
             /\ UNCHANGED <<offTimer, pumpLog, timerLog>>
  ELSE IF Due(state, now)
    THEN /\ state' = [state EXCEPT !.pumpActive = TRUE,
                                   !.lastPrecipitation = Num(now),
                                   !.previousState = IF Legacy THEN @ ELSE "active",
                                   !.offTimer = TRUE]
         /\ Record(<<Pump("on"),
                     IF Legacy THEN NoMsg
                     ELSE PrecipitationStatus("active", Num(state.durationMs), undefined)>>)
         /\ offTimer' = OffDelay(state)
         /\ timerLog' = StartTimer(offTimer >= 0, FALSE)
         /\ pumpLog' = [onAt |-> now, duration |-> state.durationMs,
                        previousOnAt |-> pumpLog.onAt]
  ELSE LET remaining == state.intervalMs - (now - state.lastPrecipitation.v)
           e == VersionEmitStatus(state, "waiting", Num(remaining))
       IN  /\ state' = e.state
           /\ Record(<<NoMsg, e.msg>>)
           /\ UNCHANGED <<offTimer, pumpLog, timerLog>>

\* the setInterval callback of startTickInterval
TickInterval ==
  /\ variant \in PrecipitationVariants
  /\ tickTimer = 0
  /\ tickTimer' = TimerDelay(TickMs(node))
  /\ event' = [kind |-> "tick", topic |-> "none", payload |-> undefined]
  /\ evaluatePrecipitation
  /\ UNCHANGED <<variant, node, closed, now, dvars>>

\* an off-timer callback that sends no command
OffTimerStatusOnly ==
  /\ variant \in PrecipitationVariants
  /\ offTimer = 0
  /\ offTimer' = -1
  /\ event' = [kind |-> "off", topic |-> "none", payload |-> undefined]
  /\ LET last      == IF state.lastPrecipitation = Null \/ state.lastPrecipitation.v = 0
                        THEN now ELSE state.lastPrecipitation.v
         remaining == state.intervalMs - (now - last)
     IN  /\ state' = [state EXCEPT !.pumpActive = FALSE, !.offTimer = FALSE,
                                   !.previousState = IF Legacy THEN @ ELSE "waiting"]
         /\ Record(<<NoMsg,
                     IF Legacy THEN NoMsg
                     ELSE PrecipitationStatus("waiting", undefined,
                                              Num(IF remaining > 0 THEN remaining ELSE 0))>>)
  /\ UNCHANGED <<variant, node, closed, now, tickTimer, pumpLog, timerLog, dvars>>

\* the setTimeout callback scheduled when the pump is switched on
OffTimer ==
  /\ variant \in PrecipitationVariants
  /\ offTimer = 0
  /\ offTimer' = -1
  /\ event' = [kind |-> "off", topic |-> "none", payload |-> undefined]
  /\ LET last      == IF state.lastPrecipitation = Null \/ state.lastPrecipitation.v = 0
                        THEN now ELSE state.lastPrecipitation.v
         remaining == state.intervalMs - (now - last)
     IN  /\ state' = [state EXCEPT !.pumpActive = FALSE, !.offTimer = FALSE,
                                   !.previousState = IF Legacy THEN @ ELSE "waiting"]
         /\ Record(<<Pump("off"),
                     IF Legacy THEN NoMsg
                     ELSE PrecipitationStatus("waiting", undefined,
                                              Num(IF remaining > 0 THEN remaining ELSE 0))>>)
  /\ UNCHANGED <<variant, node, closed, now, tickTimer, pumpLog, timerLog, dvars>>

\* node.on('input') of the precipitation controller
PrecipitationInput(topic, payload) ==
  /\ variant \in PrecipitationVariants
  /\ ~closed
  /\ event' = [kind |-> "input", topic |-> topic, payload |-> payload]
  /\ IF topic = "interval" /\ typeof(payload) = "number" /\ IsNum(payload)
       THEN state' = [state EXCEPT !.intervalMs =
                        IF Legacy THEN payload.v * MsPerMinute ELSE payload.v]
     ELSE IF topic = "duration" /\ typeof(payload) = "number" /\ IsNum(payload)
       THEN state' = [state EXCEPT !.durationMs =
                        IF Legacy THEN payload.v * MsPerSecond ELSE payload.v]
     ELSE IF topic = "night" /\ typeof(payload) = "boolean"
             /\ (Legacy \/ node.nightDisable)
       THEN state' = [state EXCEPT !.night = (payload = JsTrue)]
     ELSE UNCHANGED state
  /\ Record(<<NoMsg, NoMsg>>)
  /\ UNCHANGED <<variant, node, closed, timerLog, dvars, pvars>>

IntervalMessage == \E p \in IntervalPayloads : PrecipitationInput("interval", p)

DurationMessage == \E p \in DurationPayloads : PrecipitationInput("duration", p)

NightMessage == \E p \in NightPayloads : PrecipitationInput("night", p)

\* close sends nothing
CloseCommandNone(st) == NoMsg

\* what close sends on output 1
CloseCommand(st) == IF st.pumpActive THEN Pump("off") ELSE NoMsg

\* close that leaves the off-timer running
PrecipitationCloseKeepsTimer ==
  /\ variant \in PrecipitationVariants
  /\ ~closed
  /\ closed' = TRUE
  /\ event' = [kind |-> "close", topic |-> "none", payload |-> undefined]
  /\ tickTimer' = IF state.tickTimerId THEN -1 ELSE tickTimer
  /\ offTimer' = offTimer
  /\ state' = [state EXCEPT !.tickTimerId = FALSE, !.pumpActive = FALSE]
  /\ Record(<<CloseCommand(state), NoMsg>>)
  /\ UNCHANGED <<variant, node, now, pumpLog, timerLog, dvars>>

\* node.on('close') of the precipitation controller
PrecipitationClose ==
  /\ variant \in PrecipitationVariants
  /\ ~closed
  /\ closed' = TRUE
  /\ event' = [kind |-> "close", topic |-> "none", payload |-> undefined]
  /\ tickTimer' = IF state.tickTimerId THEN -1 ELSE tickTimer
  /\ offTimer' = IF state.offTimer THEN -1 ELSE offTimer
  /\ state' = [state EXCEPT !.tickTimerId = FALSE, !.offTimer = FALSE,
                            !.pumpActive = FALSE]
  /\ Record(<<CloseCommand(state), NoMsg>>)
  /\ UNCHANGED <<variant, node, now, pumpLog, timerLog, dvars>>

(***************************************************************************)
(* The circadian core (src/unnamed/part_007), the rhythm generator.        *)
(* Its numbers (bounds, targets) are counted in tenths, so the payload     *)
(* Num(4) is 0.4; a target before rounding is an exact fraction n/d of     *)
(* tenths.  Date.now() is `now`, counted in milliseconds from the epoch    *)
(* of the simulated calendar.  The cosine is taken at the angles where it  *)
(* is rational, which the location and the tick period below produce.      *)
(***************************************************************************)
Rat(n, d) == [t |-> "number", n |-> n, d |-> d]

RECURSIVE Pow10(_)
Pow10(k) == IF k <= 0 THEN 1 ELSE 10 * Pow10(k - 1)

\* the nearest integer to n/d (d > 0), halves away from zero
RoundHalfAway(n, d) ==
  IF n >= 0 THEN (2 * n + d) \div (2 * d) ELSE -((d - 2 * n) \div (2 * d))

\* Number(x.toFixed(decimals)), in tenths, for decimals 0 and 1
ToFixed(x, decimals) ==
  IF ~IsNum(x) THEN NaN
  ELSE LET unit == Pow10(1 - decimals)
       IN  Num(unit * RoundHalfAway(x.n, x.d * unit))

\* twice Math.cos of an angle given in degrees
CosTwice(deg) ==
  LET a == deg % 360
  IN  CASE a = 0            -> 2
        [] a \in {60, 300}  -> 1
        [] a \in {90, 270}  -> 0
        [] a \in {120, 240} -> -1
        [] a = 180          -> -2

\* the location configuration node: a year of 6 days of 24 hours, one real
\* second is one simulated hour, solar noon at 12:00
CircadianLocation ==
  [longitude |-> 15, tzOffset |-> 1, orbitalPeriod |-> 6, rotationalPeriod |-> 24,
   timeScale |-> 3600]

\* what RED.nodes.getNode(config.locationConfig) returns: the location
\* configuration node, or nothing when the id cannot be resolved
LocationConfigs == {CircadianLocation, Null}

CircadianRawConfigs ==
  {[phaseShift |-> 0, diurnalSwing |-> 3, seasonalSwing |-> 1, tickInterval |-> 4,
    decimals |-> 1, locationConfig |-> CircadianLocation],
   [phaseShift |-> 60, diurnalSwing |-> 0, seasonalSwing |-> 0, tickInterval |-> 4,
    decimals |-> 0, locationConfig |-> CircadianLocation],
   [phaseShift |-> 0, diurnalSwing |-> 3, seasonalSwing |-> 1, tickInterval |-> 4,
    decimals |-> 1, locationConfig |-> Null]}

DefaultSwing == 1

\* the constructor's configuration parsing; config is the definition object
\* the constructor was given
CircadianParseConfig(c) ==
  [config         |-> c,
   phaseShift     |-> OrDefault(Num(c.phaseShift), Num(0)).v,
   diurnalSwing   |-> OrDefault(Num(c.diurnalSwing), Num(DefaultSwing)).v,
   seasonalSwing  |-> OrDefault(Num(c.seasonalSwing), Num(DefaultSwing)).v,
   tickInterval   |-> OrDefault(Num(c.tickInterval), Num(DefaultTickInterval)).v,
   decimals       |-> c.decimals,
   locationConfig |-> c.locationConfig]

\* fault: a reaction of the node has thrown
CircadianInitialState == [absoluteMin |-> undefined, absoluteMax |-> undefined,
                          intervalId |-> FALSE, fault |-> FALSE]

\* payloads of 'absoluteMin' and 'absoluteMax' messages, and the legacy objects
BoundPayloads == {Num(4), Num(16), NaN, StringValue}

Setpoints(lo, hi) == [t |-> "object", min |-> lo, max |-> hi]

SetpointPayloads == {Setpoints(Num(10), Num(16)), Setpoints(Num(4), StringValue)}

\* getSimulatedTime with getDayOfYear: the day of the year and the UTC hour
getSimulatedTime(n, t) ==
  LET hours == (t * n.locationConfig.timeScale) \div (MsPerSecond * 3600)
  IN  [dayOfYear |-> 1 + hours \div 24, hour |-> hours % 24]

\* getSeasonalFactor, doubled
getSeasonalFactor(n, simulatedTime) ==
  CosTwice((360 * (simulatedTime.dayOfYear - 172)) \div n.locationConfig.orbitalPeriod)

\* getDiurnalFactor, doubled
getDiurnalFactor(n, simulatedTime) ==
  LET solarNoonOffset == n.locationConfig.longitude \div 15 - n.locationConfig.tzOffset
      h0 == simulatedTime.hour - (12 + solarNoonOffset)
      h1 == IF h0 > 12 THEN h0 - 24 ELSE h0
      hoursFromSolarNoon == IF h1 < -12 THEN h1 + 24 ELSE h1
  IN  CosTwice((360 * hoursFromSolarNoon) \div n.locationConfig.rotationalPeriod
               + OrDefault(Num(n.phaseShift), Num(0)).v)

\* one bound set is taken for both bounds set
BothSetEither(st) == st.absoluteMin # undefined \/ st.absoluteMax # undefined

\* state.absoluteMin !== undefined && state.absoluteMax !== undefined
BothSet(st) == st.absoluteMin # undefined /\ st.absoluteMax # undefined

\* calculateTarget: Null while a bound is unset, else the target before rounding
calculateTarget(st, n, t) ==
  IF ~BothSet(st) THEN Null
  ELSE IF ~IsNum(st.absoluteMin) \/ ~IsNum(st.absoluteMax) THEN NaN
  ELSE LET lo == st.absoluteMin.v
           hi == st.absoluteMax.v
           simulatedTime  == getSimulatedTime(n, t)
           seasonalFactor == getSeasonalFactor(n, simulatedTime)
           diurnalFactor  == getDiurnalFactor(n, simulatedTime)
           sSwing == OrDefault(Num(n.seasonalSwing), Num(DefaultSwing)).v
           dSwing == OrDefault(Num(n.diurnalSwing), Num(DefaultSwing)).v
           totalSwing == sSwing + dSwing
       IN  IF totalSwing = 0
             THEN Rat(2 * lo + (hi - lo), 2)
             ELSE Rat(4 * totalSwing * lo
                        + (hi - lo) * (seasonalFactor * sSwing + diurnalFactor * dSwing
                                       + 2 * totalSwing),
                      4 * totalSwing)

\* emitTarget throws: calculateTarget calls getSimulatedTime once both bounds
\* are set, which reads this.locationConfig.timeScale
Throws(st, n) == BothSet(st) /\ n.locationConfig = Null

TargetMsg(rounded) == [topic |-> "target", payload |-> rounded]

\* emitTarget: the node.send calls it makes, none while a bound is unset
emitTarget(st, n, t) ==
  LET target == calculateTarget(st, n, t)
  IN  IF target = Null THEN <<>>
      ELSE LET roundedTarget == ToFixed(target, n.decimals)
           IN  << <<TargetMsg(roundedTarget),
                    [topic |-> "status", target |-> roundedTarget,
                     simulatedTime |-> getSimulatedTime(n, t),
                     timeScale |-> n.locationConfig.timeScale]>> >>

\* startTickInterval: the interval is replaced, and a target is emitted at
\* once when both bounds are set
startTickInterval(st, n, t) ==
  [state |-> [st EXCEPT !.intervalId = TRUE],
   timer |-> TimerDelay(TickMs(n)),
   cleared |-> st.intervalId,
   sends |-> IF BothSet(st) THEN emitTarget(st, n, t) ELSE <<>>]

\* the sends of a reaction, and the last target message among them
Emit(sends) ==
  /\ sent' = sends
  /\ lastCommand' = IF sends # <<>> THEN sends[Len(sends)][1] ELSE lastCommand
  /\ UNCHANGED statusLog

\* the constructor: status 'awaiting setpoints', startTickInterval
InitCircadian ==
  /\ variant = "circadian"
  /\ \E c \in CircadianRawConfigs :
       /\ node = CircadianParseConfig(c)
       /\ LET r == startTickInterval(CircadianInitialState, node, 0)
          IN  /\ state = r.state
              /\ tickTimer = r.timer
              /\ sent = r.sends
  /\ closed = FALSE
  /\ event = [kind |-> "construct", topic |-> "none", payload |-> undefined]
  /\ lastCommand = NoMsg
  /\ statusLog = <<"none", "none", "none">>
  /\ now = 0
  /\ offTimer = -1
  /\ pumpLog = NoPump
  /\ timerLog = NoTimers
  /\ watchdog = -1
  /\ pre = Mode(InitialState("temperature"))
  /\ watchdogFires = 0
  /\ elapsed = 0

\* the reaction to a bound update that leaves both bounds set:
\* emitTarget, then startTickInterval; when emitTarget throws, the handler
\* ends there, with the bound stored
CircadianUpdate(st) ==
  IF Throws(st, node)
    THEN /\ state' = [st EXCEPT !.fault = TRUE]
         /\ Emit(<<>>)
         /\ UNCHANGED <<tickTimer, timerLog>>
    ELSE LET r == startTickInterval(st, node, now)
         IN  /\ state' = r.state
             /\ tickTimer' = r.timer
             /\ timerLog' = StartTimer(tickTimer >= 0, r.cleared)
             /\ Emit(emitTarget(st, node, now) \o r.sends)

\* node.on('input') of the circadian core
CircadianInput(topic, payload) ==
  /\ variant = "circadian"
  /\ ~closed
  /\ event' = [kind |-> "input", topic |-> topic, payload |-> payload]
  /\ IF topic = "absoluteMin" /\ typeof(payload) = "number"
       THEN LET st == [state EXCEPT !.absoluteMin = payload]
            IN  IF BothSet(st) THEN CircadianUpdate(st)
                ELSE state' = st /\ Emit(<<>>) /\ UNCHANGED <<tickTimer, timerLog>>
     ELSE IF topic = "absoluteMax" /\ typeof(payload) = "number"
       THEN LET st == [state EXCEPT !.absoluteMax = payload]
            IN  IF BothSet(st) THEN CircadianUpdate(st)
                ELSE state' = st /\ Emit(<<>>) /\ UNCHANGED <<tickTimer, timerLog>>
     ELSE IF typeof(payload) = "object"
             /\ typeof(payload.min) = "number" /\ typeof(payload.max) = "number"
       THEN CircadianUpdate([state EXCEPT !.absoluteMin = payload.min,
                                          !.absoluteMax = payload.max])
     ELSE Emit(<<>>) /\ UNCHANGED <<state, tickTimer, timerLog>>
  /\ UNCHANGED <<variant, node, closed, now, offTimer, pumpLog, dvars>>

AbsoluteMinMessage == \E p \in BoundPayloads \cup SetpointPayloads : CircadianInput("absoluteMin", p)

AbsoluteMaxMessage == \E p \in BoundPayloads : CircadianInput("absoluteMax", p)

SetpointsMessage == \E p \in SetpointPayloads : CircadianInput("setpoints", p)

\* the setInterval callback of startTickInterval
CircadianTick ==
  /\ variant = "circadian"
  /\ tickTimer = 0
  /\ tickTimer' = TimerDelay(TickMs(node))
  /\ event' = [kind |-> "tick", topic |-> "none", payload |-> undefined]
  /\ IF Throws(state, node)
       THEN state' = [state EXCEPT !.fault = TRUE] /\ Emit(<<>>)
       ELSE /\ Emit(IF BothSet(state) THEN emitTarget(state, node, now) ELSE <<>>)
            /\ UNCHANGED state
  /\ UNCHANGED <<variant, node, closed, now, offTimer, pumpLog, timerLog, dvars>>

\* node.on('close') of the circadian core
CircadianClose ==
  /\ variant = "circadian"
  /\ ~closed
  /\ closed' = TRUE
  /\ event' = [kind |-> "close", topic |-> "none", payload |-> undefined]
  /\ tickTimer' = IF state.intervalId THEN -1 ELSE tickTimer
  /\ state' = [state EXCEPT !.intervalId = FALSE]
  /\ Emit(<<>>)
  /\ UNCHANGED <<variant, node, now, offTimer, pumpLog, timerLog, dvars>>

(***************************************************************************)
(* The circadian core of src/nodes/circadian-core/circadian-core-node.ts   *)
(* ("circadianCore").  Its factors lie between 0 and 1 and follow the      *)
(* latitude, the axial tilt and the length of the day; its input handler   *)
(* and its constructor do not call startTickInterval, so no interval is    *)
(* ever scheduled.  The location is one whose trigonometry is exact: a     *)
(* year of 2 days puts every day on an equinox.  The seasonal factor is    *)
(* counted in 16ths, the diurnal factor in 48ths.                          *)
(***************************************************************************)
\* twice Math.sin of an angle given in degrees
SinTwice(deg) ==
  LET a == deg % 360
  IN  CASE a \in {0, 180}   -> 0
        [] a \in {30, 150}  -> 1
        [] a = 90           -> 2
        [] a \in {210, 330} -> -1
        [] a = 270          -> -2

\* the location configuration node: latitude 30 degrees, axial tilt 90
\* degrees, a year of 2 days of 24 hours, one real second is one simulated
\* hour, solar noon at 12:00
CoreLocation ==
  [latitude |-> 30, longitude |-> 15, tzOffset |-> 1, axialTilt |-> 90,
   orbitalPeriod |-> 2, rotationalPeriod |-> 24, timeScale |-> 3600]

CoreRawConfigs ==
  {[phaseShift |-> 60, tickInterval |-> 4, decimals |-> 1, locationConfig |-> CoreLocation],
   [phaseShift |-> 0, tickInterval |-> 4, decimals |-> 0, locationConfig |-> CoreLocation],
   [phaseShift |-> 0, tickInterval |-> 4, decimals |-> 1, locationConfig |-> Null]}

CoreParseConfig(c) ==
  [config         |-> c,
   phaseShift     |-> OrDefault(Num(c.phaseShift), Num(0)).v,
   tickInterval   |-> OrDefault(Num(c.tickInterval), Num(DefaultTickInterval)).v,
   decimals       |-> c.decimals,
   locationConfig |-> c.locationConfig]

\* getSolarDeclination, in degrees
getSolarDeclination(dayOfYear, orbitalPeriod, axialTilt) ==
  (axialTilt * SinTwice((360 * (dayOfYear - 81)) \div orbitalPeriod)) \div 2

\* getDayLength, in hours: at a declination of 0 the hour angle is 90 degrees
getDayLength(latitude, solarDeclination) ==
  CASE solarDeclination = 0 -> 12

\* getSeasonalFactor, in 16ths
CoreSeasonalFactor(n, simulatedTime) ==
  LET loc == n.locationConfig
      seasonalAngle == (360 * (simulatedTime.dayOfYear - 172)) \div loc.orbitalPeriod
  IN  8 + CosTwice(seasonalAngle) * SinTwice(loc.latitude) * SinTwice(loc.axialTilt)

\* getDiurnalFactor, in 48ths
CoreDiurnalFactor(n, simulatedTime) ==
  LET loc == n.locationConfig
      solarDeclination == getSolarDeclination(simulatedTime.dayOfYear, loc.orbitalPeriod,
                                              loc.axialTilt)
      dayLength == getDayLength(loc.latitude, solarDeclination)
      solarNoonOffset == loc.longitude \div 15 - loc.tzOffset
      h0 == simulatedTime.hour - (12 + solarNoonOffset)
      h1 == IF h0 > 12 THEN h0 - 24 ELSE h0
      hoursFromSolarNoon == IF h1 < -12 THEN h1 + 24 ELSE h1
      magnitude == IF hoursFromSolarNoon < 0 THEN -hoursFromSolarNoon ELSE hoursFromSolarNoon
      diurnalValue == CosTwice((360 * hoursFromSolarNoon) \div loc.rotationalPeriod
                               + OrDefault(Num(n.phaseShift), Num(0)).v)
  IN  IF 2 * magnitude > dayLength THEN 0
      ELSE (IF diurnalValue > 0 THEN diurnalValue ELSE 0) * dayLength

\* calculateTarget: seasonalFactor * 0.7 + diurnalFactor * 0.3 between the bounds
CoreCalculateTarget(st, n, t) ==
  IF ~BothSet(st) THEN Null
  ELSE IF ~IsNum(st.absoluteMin) \/ ~IsNum(st.absoluteMax) THEN NaN
  ELSE LET lo == st.absoluteMin.v
           hi == st.absoluteMax.v
           simulatedTime == getSimulatedTime(n, t)
           combined480 == 21 * CoreSeasonalFactor(n, simulatedTime)
                            + 3 * CoreDiurnalFactor(n, simulatedTime)
       IN  Rat(480 * lo + (hi - lo) * combined480, 480)

\* emitTarget: the node.send calls it makes
CoreEmitTarget(st, n, t) ==
  LET target == CoreCalculateTarget(st, n, t)
  IN  IF target = Null THEN <<>>
      ELSE LET roundedTarget == ToFixed(target, n.decimals)
           IN  << <<TargetMsg(roundedTarget),
                    [topic |-> "status", target |-> roundedTarget,
                     simulatedTime |-> getSimulatedTime(n, t),
                     timeScale |-> n.locationConfig.timeScale]>> >>

\* the constructor: status 'awaiting setpoints'; no timer is started
InitCore ==
  /\ variant = "circadianCore"
  /\ \E c \in CoreRawConfigs : node = CoreParseConfig(c)
  /\ state = CircadianInitialState
  /\ tickTimer = -1
  /\ sent = <<>>
  /\ closed = FALSE
  /\ event = [kind |-> "construct", topic |-> "none", payload |-> undefined]
  /\ lastCommand = NoMsg
  /\ statusLog = <<"none", "none", "none">>
  /\ now = 0
  /\ offTimer = -1
  /\ pumpLog = NoPump
  /\ timerLog = NoTimers
  /\ watchdog = -1
  /\ pre = Mode(InitialState("temperature"))
  /\ watchdogFires = 0
  /\ elapsed = 0

\* the reaction to a bound update that leaves both bounds set: emitTarget
CoreUpdate(st) ==
  IF Throws(st, node)
    THEN state' = [st EXCEPT !.fault = TRUE] /\ Emit(<<>>)
    ELSE state' = st /\ Emit(CoreEmitTarget(st, node, now))

\* node.on('input')
CoreInput(topic, payload) ==
  /\ variant = "circadianCore"
  /\ ~closed
  /\ event' = [kind |-> "input", topic |-> topic, payload |-> payload]
  /\ IF topic = "absoluteMin" /\ typeof(payload) = "number"
       THEN LET st == [state EXCEPT !.absoluteMin = payload]
            IN  IF BothSet(st) THEN CoreUpdate(st) ELSE state' = st /\ Emit(<<>>)
     ELSE IF topic = "absoluteMax" /\ typeof(payload) = "number"
       THEN LET st == [state EXCEPT !.absoluteMax = payload]
            IN  IF BothSet(st) THEN CoreUpdate(st) ELSE state' = st /\ Emit(<<>>)
     ELSE IF typeof(payload) = "object"
             /\ typeof(payload.min) = "number" /\ typeof(payload.max) = "number"
       THEN CoreUpdate([state EXCEPT !.absoluteMin = payload.min,
                                     !.absoluteMax = payload.max])
     ELSE Emit(<<>>) /\ UNCHANGED state
  /\ UNCHANGED <<variant, node, closed, timerLog, dvars, pvars>>

CoreMessage ==
  \/ \E p \in BoundPayloads \cup SetpointPayloads : CoreInput("absoluteMin", p)
  \/ \E p \in BoundPayloads : CoreInput("absoluteMax", p)
  \/ \E p \in SetpointPayloads : CoreInput("setpoints", p)

\* node.on('close')
CoreClose ==
  /\ variant = "circadianCore"
  /\ ~closed
  /\ closed' = TRUE
  /\ event' = [kind |-> "close", topic |-> "none", payload |-> undefined]
  /\ tickTimer' = IF state.intervalId THEN -1 ELSE tickTimer
  /\ state' = [state EXCEPT !.intervalId = FALSE]
  /\ Emit(<<>>)
  /\ UNCHANGED <<variant, node, now, offTimer, pumpLog, timerLog, dvars>>

\* a tick interval of time passes; the node has no timer of its own
CoreTime ==
  /\ variant = "circadianCore"
  /\ tickTimer < 0
  /\ now + TickMs(node) <= MaxNow
  /\ now' = now + TickMs(node)
  /\ event' = [kind |-> "time", topic |-> "none", payload |-> undefined]
  /\ UNCHANGED <<variant, node, state, closed, sent, lastCommand, statusLog, offTimer,
                 tickTimer, pumpLog, timerLog, dvars>>

(***************************************************************************)
(* The lighting controller (src/unnamed/part_010).  It keeps no state      *)
(* between messages.  Inputs are whole percents, the gain is counted in    *)
(* tenths, a value on its way through the stages is an exact fraction and  *)
(* the analog output, rounded to one decimal, is counted in tenths         *)
(* (Num(500) is 50.0).  `now` is the wall clock in minutes since midnight. *)
(***************************************************************************)
DefaultGain == 10

DefaultBottomCutOff == 50

\* a schedule time 'HH:MM' as its two numbers, and the empty string
TimeString(h, m) == [set |-> TRUE, hours |-> h, minutes |-> m]

EmptyString == [set |-> FALSE, hours |-> 0, minutes |-> 0]

\* the schedules of the editor: none, 06:00-22:00, and 22:00-06:00 over midnight
Schedules ==
  {<<EmptyString, EmptyString>>,
   <<TimeString(6, 0), TimeString(22, 0)>>,
   <<TimeString(22, 0), TimeString(6, 0)>>}

LightingRawConfigs ==
  [gain : {0, 5, 10, 20}, bottomCutOff : {0, 20, 50}, mode : {"", "digital"},
   schedule : Schedules, scheduleMode : {"", "guaranteed"}]

\* the constructor's configuration parsing; config is the definition object
LightingParseConfig(c) ==
  [config        |-> c,
   gain          |-> OrDefault(Num(c.gain), Num(DefaultGain)).v,
   bottomCutOff  |-> OrDefault(Num(c.bottomCutOff), Num(DefaultBottomCutOff)).v,
   mode          |-> IF c.mode = "" THEN "analog" ELSE c.mode,
   scheduleTime1 |-> c.schedule[1],
   scheduleTime2 |-> c.schedule[2],
   scheduleMode  |-> IF c.scheduleMode = "" THEN "allowed" ELSE c.scheduleMode]

\* input payloads
LightingPayloads == {Num(-5), Num(0), Num(10), Num(25), Num(50), Num(75), Num(100),
                     NaN, StringValue}

\* the minutes of the day at which messages are handled
ClockMinutes == {0, 359, 360, 361, 1319, 1320, 1321}

\* isWithinSchedule at minute t of the day
isWithinSchedule(n, t) ==
  IF ~n.scheduleTime1.set \/ ~n.scheduleTime2.set THEN TRUE
  ELSE LET currentTime == (t \div 60) * 60 + (t % 60)
           time1 == n.scheduleTime1.hours * 60 + n.scheduleTime1.minutes
           time2 == n.scheduleTime2.hours * 60 + n.scheduleTime2.minutes
       IN  IF time1 <= time2
             THEN currentTime >= time1 /\ currentTime <= time2
             ELSE currentTime >= time1 \/ currentTime <= time2

\* no bottom cut-off: the value passes unchanged
RectifyNone(value, cutOff) == Rat(value.v, 1)

\* the bottom cut-off: 0 below it, remapped to 0..100 from it on
Rectify(value, cutOff) ==
  IF Lt(value, Num(cutOff)) THEN Rat(0, 1)
  ELSE IF ~IsNum(value) THEN NaN
  ELSE Rat((value.v - cutOff) * 100, 100 - cutOff)

\* value * gain, the gain in tenths
ApplyGain(value, gain) ==
  IF ~IsNum(value) THEN NaN ELSE Rat(value.n * gain, value.d * 10)

\* Math.max(0, Math.min(100, value))
Clamp(value) ==
  IF ~IsNum(value) THEN NaN
  ELSE IF value.n > 100 * value.d THEN Rat(100, 1)
  ELSE IF value.n < 0 THEN Rat(0, 1)
  ELSE value

\* the schedule gate: the value after it and the scheduleActive flag
ScheduleGate(n, value, t) ==
  IF n.scheduleTime1.set /\ n.scheduleTime2.set
    THEN IF n.scheduleMode = "allowed" /\ ~isWithinSchedule(n, t)
           THEN [value |-> Rat(0, 1), scheduleActive |-> TRUE]
         ELSE IF n.scheduleMode = "guaranteed" /\ isWithinSchedule(n, t)
           THEN [value |-> Rat(100, 1), scheduleActive |-> TRUE]
         ELSE [value |-> value, scheduleActive |-> FALSE]
    ELSE [value |-> value, scheduleActive |-> FALSE]

\* Math.round(value * 10) / 10, in tenths
RoundTenths(value) ==
  IF ~IsNum(value) THEN NaN
  ELSE Num((20 * value.n + value.d) \div (2 * value.d))

\* value > 0
Positive(value) == IsNum(value) /\ value.n > 0

\* the payload's lighting field for the mode
OutputPayload(n, value) ==
  IF n.mode = "digital" THEN (IF Positive(value) THEN "on" ELSE "off")
  ELSE RoundTenths(value)

\* the two messages the input handler sends for a numeric payload at minute t
LightingOutput(n, payload, t) ==
  LET cutOff == OrDefault(Num(n.bottomCutOff), Num(DefaultBottomCutOff)).v
      gain   == OrDefault(Num(n.gain), Num(DefaultGain)).v
      gated  == ScheduleGate(n, Clamp(ApplyGain(Rectify(payload, cutOff), gain)), t)
      out    == OutputPayload(n, gated.value)
  IN  <<[topic |-> "actuators", lighting |-> out],
        [topic |-> "status", lighting |-> out, scheduleActive |-> gated.scheduleActive,
         gain |-> n.gain, bottomCutOff |-> n.bottomCutOff, mode |-> n.mode]>>

\* the constructor
InitLighting ==
  /\ variant = "lighting"
  /\ \E c \in LightingRawConfigs : node = LightingParseConfig(c)
  /\ state = [status |-> "none"]
  /\ now \in ClockMinutes
  /\ closed = FALSE
  /\ event = [kind |-> "construct", topic |-> "none", payload |-> undefined]
  /\ sent = <<NoMsg, NoMsg>>
  /\ lastCommand = NoMsg
  /\ statusLog = <<"none", "none", "none">>
  /\ offTimer = -1
  /\ tickTimer = -1
  /\ pumpLog = NoPump
  /\ timerLog = NoTimers
  /\ watchdog = -1
  /\ pre = Mode(InitialState("temperature"))
  /\ watchdogFires = 0
  /\ elapsed = 0

\* an input handler that takes a payload that is not a number for 0
LightingInputAcceptsAll(payload) ==
  /\ variant = "lighting"
  /\ ~closed
  /\ event' = [kind |-> "input", topic |-> "none", payload |-> payload]
  /\ LET p == IF typeof(payload) # "number" THEN Num(0) ELSE payload
     IN  /\ sent' = LightingOutput(node, p, now)
         /\ lastCommand' = sent'[1]
         /\ state' = [status |-> "value"]
  /\ UNCHANGED <<variant, node, closed, statusLog, timerLog, dvars, pvars>>

\* node.on('input') of the lighting controller
LightingInput(payload) ==
  /\ variant = "lighting"
  /\ ~closed
  /\ event' = [kind |-> "input", topic |-> "none", payload |-> payload]
  /\ IF typeof(payload) # "number"
       THEN /\ state' = [status |-> "invalid input"]
            /\ sent' = <<NoMsg, NoMsg>>
            /\ UNCHANGED lastCommand
       ELSE /\ sent' = LightingOutput(node, payload, now)
            /\ lastCommand' = sent'[1]
            /\ state' = [status |-> "value"]
  /\ UNCHANGED <<variant, node, closed, statusLog, timerLog, dvars, pvars>>

LightingMessage == \E p \in LightingPayloads : LightingInput(p)

\* the wall clock moves on to the next minute at which something happens
LightingClock ==
  /\ variant = "lighting"
  /\ now' = IF \E m \in ClockMinutes : m > now
              THEN CHOOSE m \in ClockMinutes : m > now /\ \A k \in ClockMinutes : k > now => m <= k
              ELSE CHOOSE m \in ClockMinutes : \A k \in ClockMinutes : m <= k
  /\ event' = [kind |-> "time", topic |-> "none", payload |-> undefined]
  /\ UNCHANGED <<variant, node, state, closed, sent, lastCommand, statusLog, offTimer,
                 tickTimer, pumpLog, timerLog, dvars>>

\* time passes up to the next timer deadline
AdvanceTime ==
  /\ variant \in PrecipitationVariants \cup {"circadian"}
  /\ offTimer # 0 /\ tickTimer # 0
  /\ offTimer > 0 \/ tickTimer > 0
  /\ LET dt == IF offTimer > 0 /\ (tickTimer <= 0 \/ offTimer < tickTimer)
                 THEN offTimer ELSE tickTimer
     IN  /\ now + dt <= MaxNow
         /\ now' = now + dt
         /\ offTimer' = IF offTimer > 0 THEN offTimer - dt ELSE offTimer
         /\ tickTimer' = IF tickTimer > 0 THEN tickTimer - dt ELSE tickTimer
  /\ event' = [kind |-> "time", topic |-> "none", payload |-> undefined]
  /\ UNCHANGED <<variant, node, state, closed, sent, lastCommand, statusLog, pumpLog,
                 timerLog, dvars>>

(***************************************************************************)
(* The bang-bang controllers: src/unnamed/part_003 ("temperatureBangBang", *)
(* no watchdog, no close handler) and src/unnamed/part_006                 *)
(* ("humidityBangBang", with the watchdog of the dual-deadband             *)
(* controllers).  Inside the deadband they keep the actuator state.  Time  *)
(* passes from the start of the watchdog to its deadline in one step.      *)
(***************************************************************************)
BangBangVariants == {"temperatureBangBang", "humidityBangBang"}

BangBang == variant \in BangBangVariants

\* whose names and defaults a bang-bang controller has
Family(v) == IF v = "temperatureBangBang" THEN "temperature" ELSE "humidity"

\* readings and targets sent to the bang-bang controllers
BangBangPayloads == {Num(0), Num(2), Num(4), Num(6), Num(MaxVal), NaN, StringValue}

\* this.x in part_003, (this.x || default) in part_006
Configured(v, x, d) == IF v = "humidityBangBang" THEN OrDefault(x, d) ELSE x

\* inside the deadband one actuator is on whenever the controller is not idle
KeepStateBothOn(st, v) ==
  Control(IF st.currentState # "idle" THEN "on" ELSE "off",
          IF st.currentState # "idle" THEN "on" ELSE "off", st.currentState, "none")

\* inside the deadband the controller goes back to idle
KeepStateIdle(st, v) == Control("off", "off", "idle", "none")

\* 'Within deadband - maintain current state'
KeepState(st, v) ==
  Control(IF st.currentState = LowState(Family(v)) THEN "on" ELSE "off",
          IF st.currentState = HighState(Family(v)) THEN "on" ELSE "off",
          st.currentState, "none")

\* calculateControl of the bang-bang controllers
BangBangCalculateControl(st, n, v) ==
  LET f        == Family(v)
      temp     == st.current
      target   == st.target
      deadband == Configured(v, Num(n.deadband), Num(DefaultDeadband(f)))
      minimum  == Configured(v, Num(n.minimum), Num(DefaultMinimum(f)))
      maximum  == Configured(v, Num(n.maximum), Num(DefaultMaximum(f)))
      st1      == [st EXCEPT !.safetyOverride = "null"]
  IN  IF st.openLoopMode
        THEN [state |-> st, control |-> Control("off", "off", "open-loop", "none")]
      ELSE IF st.current = undefined \/ st.target = undefined
        THEN [state |-> st, control |-> Control("off", "off", "idle", "none")]
      ELSE IF Lt(temp, minimum)
        THEN [state   |-> [st EXCEPT !.safetyOverride = "min", !.currentState = LowState(f)],
              control |-> Control("on", "off", LowState(f), MinOverrideText(f))]
      ELSE IF Gt(temp, maximum)
        THEN [state   |-> [st EXCEPT !.safetyOverride = "max", !.currentState = HighState(f)],
              control |-> Control("off", "on", HighState(f), MaxOverrideText(f))]
      ELSE IF Lt(temp, Minus(target, deadband))
        THEN [state   |-> [st1 EXCEPT !.currentState = LowState(f)],
              control |-> Control("on", "off", LowState(f), "none")]
      ELSE IF Gt(temp, Plus(target, deadband))
        THEN [state   |-> [st1 EXCEPT !.currentState = HighState(f)],
              control |-> Control("off", "on", HighState(f), "none")]
      ELSE [state |-> st1, control |-> KeepState(st1, v)]

\* processControl / _executeControlLoop: the state after it and the two
\* messages it sends
BangBangProcessControl(st, n, v) ==
  LET r == BangBangCalculateControl(st, n, v)
  IN  [state |-> r.state,
       out   |-> <<Command(r.control.low, r.control.high),
                   Status(r.control.state, OverrideOrNull(r.control), "none")>>]

\* the constructor
InitBangBang ==
  /\ variant \in BangBangVariants
  /\ \E c \in RawConfigs : node = ParseConfig(Family(variant), c)
  /\ state = InitialState(Family(variant))
  /\ watchdog = -1
  /\ closed = FALSE
  /\ event = [kind |-> "construct", topic |-> "none", payload |-> undefined]
  /\ pre = Mode(InitialState(Family(variant)))
  /\ sent = <<NoMsg, NoMsg>>
  /\ lastCommand = NoMsg
  /\ statusLog = <<"none", "none", "none">>
  /\ watchdogFires = 0
  /\ elapsed = 0
  /\ now = 0
  /\ offTimer = -1
  /\ tickTimer = -1
  /\ pumpLog = NoPump
  /\ timerLog = NoTimers

\* node.on('input') of part_003: the value is stored, then processControl
\* runs whenever both values are there
TemperatureBangBangInput(topic, payload) ==
  /\ variant = "temperatureBangBang"
  /\ event' = [kind |-> "input", topic |-> topic, payload |-> payload]
  /\ pre' = Mode(state)
  /\ LET st1 == IF typeof(payload) # "number" THEN state
                ELSE IF topic = "sensor" THEN [state EXCEPT !.current = payload]
                ELSE [state EXCEPT !.target = payload]
         r   == BangBangProcessControl(st1, node, variant)
     IN  IF st1.target # undefined /\ st1.current # undefined
           THEN state' = r.state /\ Record(r.out)
           ELSE state' = st1 /\ Record(<<NoMsg, NoMsg>>)
  /\ UNCHANGED <<variant, node, closed, watchdog, watchdogFires, elapsed, timerLog, pvars>>

\* node.on('input') of part_006: updateHumidity, or the target branch
HumidityBangBangInput(topic, payload) ==
  /\ variant = "humidityBangBang"
  /\ ~closed
  /\ event' = [kind |-> "input", topic |-> topic, payload |-> payload]
  /\ pre' = Mode(state)
  /\ IF typeof(payload) # "number"
       THEN /\ Record(<<NoMsg, NoMsg>>)
            /\ UNCHANGED <<state, watchdog, watchdogFires, timerLog>>
     ELSE IF topic = "sensor"
       THEN LET w == startWatchdog([state EXCEPT !.current = payload,
                                                 !.openLoopMode = FALSE])
                r == BangBangProcessControl(w.state, node, variant)
            IN  /\ state' = r.state
                /\ watchdog' = w.timer
                /\ timerLog' = StartTimer(watchdog >= 0, w.cleared)
                /\ watchdogFires' = 0
                /\ Record(r.out)
     ELSE LET st1 == [state EXCEPT !.target = payload]
              r   == BangBangProcessControl(st1, node, variant)
          IN  /\ IF state.current # undefined /\ ~state.openLoopMode
                   THEN state' = r.state /\ Record(r.out)
                   ELSE state' = st1 /\ Record(<<NoMsg, NoMsg>>)
              /\ UNCHANGED <<watchdog, watchdogFires, timerLog>>
  /\ UNCHANGED <<variant, node, closed, elapsed, pvars>>

BangBangSensorMessage ==
  \E p \in BangBangPayloads :
    TemperatureBangBangInput("sensor", p) \/ HumidityBangBangInput("sensor", p)

BangBangTargetMessage ==
  \E p \in BangBangPayloads :
    TemperatureBangBangInput("target", p) \/ HumidityBangBangInput("target", p)

\* the watchdog timeout callback of part_006
BangBangWatchdogFire ==
  /\ variant = "humidityBangBang"
  /\ watchdog = 0
  /\ watchdog' = -1
  /\ event' = [kind |-> "watchdog", topic |-> "none", payload |-> undefined]
  /\ pre' = Mode(state)
  /\ state' = [state EXCEPT !.openLoopMode = TRUE]
  /\ Record(<<WatchdogCommand, WatchdogStatus(node, Family(variant))>>)
  /\ watchdogFires' = IF watchdogFires < 2 THEN watchdogFires + 1 ELSE watchdogFires
  /\ UNCHANGED <<variant, node, closed, elapsed, timerLog, pvars>>

\* node.on('close') of part_006: stopWatchdog
BangBangClose ==
  /\ variant = "humidityBangBang"
  /\ ~closed
  /\ closed' = TRUE
  /\ event' = [kind |-> "close", topic |-> "none", payload |-> undefined]
  /\ pre' = Mode(state)
  /\ state' = [state EXCEPT !.watchdogTimer = FALSE]
  /\ watchdog' = IF state.watchdogTimer THEN -1 ELSE watchdog
  /\ Record(<<NoMsg, NoMsg>>)
  /\ UNCHANGED <<variant, node, watchdogFires, elapsed, timerLog, pvars>>

\* the watchdog timeout passes
BangBangTime ==
  /\ variant = "humidityBangBang"
  /\ watchdog > 0
  /\ watchdog' = 0
  /\ event' = [kind |-> "time", topic |-> "none", payload |-> undefined]
  /\ UNCHANGED <<variant, node, state, closed, pre, sent, lastCommand, statusLog,
                 watchdogFires, elapsed, timerLog, pvars>>

(***************************************************************************)
(* The P-controller class of                                               *)
(* src/nodes/temperature-controller/temperature-controller.js              *)
(* ("pController"): an event emitter whose methods its owner calls.  sent  *)
(* is the sequence of events a call emits.  The watchdog is counted in     *)
(* seconds; nothing reads the clock, so time passes from the start of the  *)
(* watchdog to its deadline in one step.                                   *)
(***************************************************************************)
PWatchdogTimeout == 60

DefaultProportionalGain == 10

EffortLimit == 100

\* temperatures handed to updateTemperature and setSetpoint
PTemperatures == {Num(n) : n \in TargetValues}

\* arguments of configure(minimumTemperature, maximumTemperature, proportionalGain)
PConfigurations ==
  {[minimumTemperature |-> Num(2), maximumTemperature |-> Num(6),
    proportionalGain |-> DefaultProportionalGain],
   [minimumTemperature |-> Num(0), maximumTemperature |-> Num(MaxVal),
    proportionalGain |-> 2 * DefaultProportionalGain]}

PStatus(level, message) == [event |-> "status", level |-> level, message |-> message]

ControlOutput(effort) == [event |-> "controlOutput", controlEffort |-> effort]

\* setOpenLoopEnabled
setOpenLoopEnabled(st, enabled) == [st EXCEPT !.isOpenLoop = enabled]

\* the fields the constructor assigns before it calls _startWatchdog
PFields ==
  [targetTemperature  |-> Num(0),
   minimumTemperature |-> undefined,
   maximumTemperature |-> Num(0),
   currentTemperature |-> Num(0),
   proportionalGain   |-> DefaultProportionalGain,
   controlEffort      |-> 0,
   isOpenLoop         |-> TRUE,
   controlLoopTimer   |-> FALSE,
   watchdogTimer      |-> FALSE,
   watchdogTimeout    |-> PWatchdogTimeout]

\* _startWatchdog: clearTimeout through the handle, setOpenLoopEnabled(false),
\* setTimeout
PStartWatchdog(st) ==
  [state   |-> [setOpenLoopEnabled(st, FALSE) EXCEPT !.watchdogTimer = TRUE],
   timer   |-> st.watchdogTimeout,
   cleared |-> st.watchdogTimer]

PEmit(events) ==
  /\ sent' = events
  /\ lastCommand' = IF \E i \in 1..Len(events) : events[i].event = "controlOutput"
                      THEN events[Len(events)] ELSE lastCommand
  /\ UNCHANGED statusLog

PController == variant = "pController"

\* the constructor
InitP ==
  /\ variant = "pController"
  /\ node = [watchdogTimeout |-> PWatchdogTimeout]
  /\ LET w == PStartWatchdog(PFields)
     IN  state = w.state /\ watchdog = w.timer
  /\ sent = <<PStatus("error", "Open-loop mode")>>
  /\ closed = FALSE
  /\ event = [kind |-> "construct", topic |-> "none", payload |-> undefined]
  /\ lastCommand = NoMsg
  /\ statusLog = <<"none", "none", "none">>
  /\ now = 0
  /\ offTimer = -1
  /\ tickTimer = -1
  /\ pumpLog = NoPump
  /\ timerLog = NoTimers
  /\ pre = Mode(InitialState("temperature"))
  /\ watchdogFires = 0
  /\ elapsed = 0

\* updateTemperature(temperature)
PUpdateTemperature ==
  /\ PController
  /\ \E temperature \in PTemperatures :
       LET w == PStartWatchdog([state EXCEPT !.currentTemperature = temperature])
       IN  /\ event' = [kind |-> "input", topic |-> "sensor", payload |-> temperature]
           /\ state' = w.state
           /\ watchdog' = w.timer
           /\ timerLog' = StartTimer(watchdog >= 0, w.cleared)
  /\ PEmit(<<>>)
  /\ UNCHANGED <<variant, node, closed, pre, watchdogFires, elapsed, pvars>>

\* setSetpoint(targetTemperature)
PSetSetpoint ==
  /\ PController
  /\ \E targetTemperature \in PTemperatures :
       /\ event' = [kind |-> "input", topic |-> "target", payload |-> targetTemperature]
       /\ state' = [state EXCEPT !.targetTemperature = targetTemperature]
  /\ PEmit(<<PStatus("ok", "Setpoint Updated")>>)
  /\ UNCHANGED <<variant, node, closed, timerLog, dvars, pvars>>

\* configure(minimumTemperature, maximumTemperature, proportionalGain)
PConfigure ==
  /\ PController
  /\ \E c \in PConfigurations :
       state' = [state EXCEPT !.proportionalGain   = c.proportionalGain,
                              !.minimumTemperature = c.minimumTemperature,
                              !.maximumTemperature = c.maximumTemperature]
  /\ event' = [kind |-> "configure", topic |-> "none", payload |-> undefined]
  /\ PEmit(<<PStatus("ok", "Controller configured")>>)
  /\ UNCHANGED <<variant, node, closed, timerLog, dvars, pvars>>

\* Math.max(-100, Math.min(100, effort))
PClamp(effort) ==
  IF effort > EffortLimit THEN EffortLimit
  ELSE IF effort < -EffortLimit THEN -EffortLimit ELSE effort

\* _executeControlLoop()
PExecuteControlLoop ==
  /\ PController
  /\ event' = [kind |-> "loop", topic |-> "none", payload |-> undefined]
  /\ IF state.isOpenLoop
       THEN /\ state' = [state EXCEPT !.controlEffort = 0]
            /\ PEmit(<<PStatus("error", "Open-loop mode"), ControlOutput(0)>>)
       ELSE LET error  == state.targetTemperature.v - state.currentTemperature.v
                effort == PClamp(state.proportionalGain * error)
                statusMessage == IF effort > 0 THEN "Heating"
                                 ELSE IF effort < 0 THEN "Cooling" ELSE "Idle (on target)"
            IN  /\ state' = [state EXCEPT !.controlEffort = effort]
                /\ PEmit(<<PStatus("ok", statusMessage), ControlOutput(effort)>>)
  /\ UNCHANGED <<variant, node, closed, timerLog, dvars, pvars>>

\* the watchdog's setTimeout callback
PWatchdogFire ==
  /\ PController
  /\ watchdog = 0
  /\ watchdog' = -1
  /\ event' = [kind |-> "watchdog", topic |-> "none", payload |-> undefined]
  /\ state' = setOpenLoopEnabled(state, TRUE)
  /\ watchdogFires' = IF watchdogFires < 2 THEN watchdogFires + 1 ELSE watchdogFires
  /\ PEmit(<<>>)
  /\ UNCHANGED <<variant, node, closed, pre, elapsed, timerLog, pvars>>

\* clear(): the handles are cleared but kept
PClear ==
  /\ PController
  /\ event' = [kind |-> "clear", topic |-> "none", payload |-> undefined]
  /\ watchdog' = IF state.watchdogTimer THEN -1 ELSE watchdog
  /\ state' = [state EXCEPT !.controlEffort = 0]
  /\ PEmit(<<PStatus("error", "Open-loop mode")>>)
  /\ UNCHANGED <<variant, node, closed, pre, watchdogFires, elapsed, timerLog, pvars>>

\* the watchdog timeout passes
PTime ==
  /\ PController
  /\ watchdog > 0
  /\ watchdog' = 0
  /\ event' = [kind |-> "time", topic |-> "none", payload |-> undefined]
  /\ UNCHANGED <<variant, node, state, closed, pre, sent, lastCommand, statusLog,
                 watchdogFires, elapsed, timerLog, pvars>>

Init ==
  \/ InitDeadband \/ InitPrecipitation \/ InitCircadian \/ InitCore \/ InitLighting
  \/ InitP \/ InitBangBang

Next ==
  \/ SensorMessage \/ TargetMessage \/ WatchdogFire \/ Close \/ AdvanceSecond
  \/ IntervalMessage \/ DurationMessage \/ NightMessage
  \/ TickInterval \/ OffTimer \/ PrecipitationClose \/ AdvanceTime
  \/ AbsoluteMinMessage \/ AbsoluteMaxMessage \/ SetpointsMessage
  \/ CircadianTick \/ CircadianClose
  \/ CoreMessage \/ CoreClose \/ CoreTime
  \/ LightingMessage \/ LightingClock
  \/ PUpdateTemperature \/ PSetSetpoint \/ PConfigure \/ PExecuteControlLoop
  \/ PWatchdogFire \/ PClear \/ PTime
  \/ BangBangSensorMessage \/ BangBangTargetMessage \/ BangBangWatchdogFire
  \/ BangBangClose \/ BangBangTime

Spec == Init /\ [][Next]_vars

\* the precipitation controller alone, with its timers firing when they are
\* due and time passing
PrecipitationNext ==
  \/ IntervalMessage \/ DurationMessage \/ NightMessage
  \/ TickInterval \/ OffTimer \/ PrecipitationClose \/ AdvanceTime

PrecipitationSpec ==
  /\ InitPrecipitation
  /\ [][PrecipitationNext]_vars
  /\ WF_vars(TickInterval)
  /\ WF_vars(OffTimer)
  /\ WF_vars(AdvanceTime)

(***************************************************************************)
(* Vocabulary of the properties.                                           *)
(***************************************************************************)
DualDeadband == variant \in Variants

AllOff == Command("off", "off")

LowOn == Command("on", "off")

HighOn == Command("off", "on")

\* the last step handled a sensor message with a payload of type number
SensorAccepted ==
  event.kind = "input" /\ event.topic = "sensor" /\ typeof(event.payload) = "number"

\* the last step handled a message with a payload that is not of type number
InputRejected == event.kind = "input" /\ typeof(event.payload) # "number"

\* the last step ran the control loop
Evaluated == event.kind = "input" /\ sent[1] # NoMsg

\* the state reported by the last evaluation, where a status message was sent
Reports(st) == sent[2] # NoMsg => sent[2].state = st

\* The reference machine of the design (section 4.2, steps 2 to 4) on plain
\* numbers: limit overrides, strict deadband comparisons, ride to target.
RefEvaluate(mode, sensor, target, deadband, minimumLimit, maximumLimit) ==
  IF sensor < minimumLimit THEN [mode |-> "driveLow", override |-> "min"]
  ELSE IF sensor > maximumLimit THEN [mode |-> "driveHigh", override |-> "max"]
  ELSE IF sensor < target - deadband THEN [mode |-> "driveLow", override |-> "null"]
  ELSE IF sensor > target + deadband THEN [mode |-> "driveHigh", override |-> "null"]
  ELSE IF mode = "driveLow" /\ sensor < target THEN [mode |-> "driveLow", override |-> "null"]
  ELSE IF mode = "driveHigh" /\ sensor > target THEN [mode |-> "driveHigh", override |-> "null"]
  ELSE [mode |-> "idle", override |-> "null"]

RefCommand(mode) ==
  IF mode = "driveLow" THEN LowOn ELSE IF mode = "driveHigh" THEN HighOn ELSE AllOff

ModeOf(v, currentState) ==
  IF currentState = LowState(v) THEN "driveLow"
  ELSE IF currentState = HighState(v) THEN "driveHigh" ELSE "idle"

(***************************************************************************)
(* C1.  In a dual-deadband controller, whenever openLoopMode is true the   *)
(* most recently emitted actuator command has both outputs off.            *)
(***************************************************************************)
C1_OpenLoopOutputsOff ==
  (DualDeadband /\ state.openLoopMode) => lastCommand = AllOff

\* a target message handled in open-loop mode while the hysteresis memory
\* still holds a driving state
C1_Witness ==
  /\ DualDeadband /\ state.openLoopMode
  /\ event.kind = "input" /\ event.topic = "target" /\ IsNum(event.payload)
  /\ state.currentState # "idle"

(***************************************************************************)
(* C2.  After an accepted sensor reading, watchdogTimeout seconds without  *)
(* another one put the controller in open-loop mode with exactly one       *)
(* watchdog emission: the forced command {off, off} and one status with    *)
(* state open-loop/error and the configured severity.  No second watchdog  *)
(* emission occurs before a new sensor reading is accepted.                *)
(***************************************************************************)
C2_SingleWatchdogEmission ==
  DualDeadband =>
    /\ watchdogFires <= 1
    /\ event.kind = "watchdog" =>
         /\ state.openLoopMode
         /\ sent[1] = AllOff
         /\ sent[2] # NoMsg
         /\ sent[2].state \in {"open-loop", "error"}
         /\ sent[2].severity = node.watchdogSeverity
    /\ (~closed /\ state.current # undefined /\ elapsed > WatchdogDelay(node)) =>
         (state.openLoopMode /\ watchdogFires = 1)

\* more than watchdogTimeout seconds after the last accepted reading
C2_Witness ==
  /\ DualDeadband /\ ~closed /\ state.current # undefined
  /\ elapsed > WatchdogDelay(node) /\ watchdogFires = 1 /\ state.openLoopMode

(***************************************************************************)
(* C3.  The watchdog also covers the period that starts at construction:   *)
(* a controller that has received no sensor reading for watchdogTimeout    *)
(* seconds since construction is in open-loop mode and has emitted the     *)
(* forced {off, off} command and the open-loop status.                     *)
(***************************************************************************)
C3_WatchdogFromConstruction ==
  (DualDeadband /\ ~closed /\ state.current = undefined /\ elapsed > WatchdogDelay(node)) =>
    /\ state.openLoopMode
    /\ lastCommand = AllOff
    /\ statusLog[2] \in {"open-loop", "error"}

(***************************************************************************)
(* C4.  An accepted sensor reading received in open-loop mode clears       *)
(* openLoopMode, restarts the watchdog, and the command emitted in that    *)
(* reaction is the one the control law (safety limits, then hysteresis)    *)
(* gives for that reading.  The law is defined for a numeric reading       *)
(* outside the limits whatever the target, and otherwise for a numeric     *)
(* reading and target.                                                     *)
(***************************************************************************)
LawDefined ==
  /\ IsNum(state.current)
  /\ \/ IsNum(state.target)
     \/ state.current.v < node.minimum
     \/ state.current.v > node.maximum

LawCommand ==
  RefCommand(RefEvaluate(ModeOf(variant, pre.currentState), state.current.v,
                         IF IsNum(state.target) THEN state.target.v ELSE 0,
                         node.deadband, node.minimum, node.maximum).mode)

C4_RecoveryUsesControlLaw ==
  (DualDeadband /\ SensorAccepted /\ pre.openLoopMode) =>
    /\ ~state.openLoopMode
    /\ watchdog = WatchdogDelay(node)
    /\ LawDefined => sent[1] = LawCommand

(***************************************************************************)
(* C5.  Safety override always wins: an accepted sensor reading below the  *)
(* minimum limit is answered with {low:on, high:off}, one above the        *)
(* maximum limit with {low:off, high:on}, whatever the target (also when   *)
(* no target was received yet) and whatever the prior actuator state.      *)
(***************************************************************************)
C5_SafetyOverrideWins ==
  (DualDeadband /\ SensorAccepted /\ IsNum(event.payload)) =>
    /\ event.payload.v < node.minimum => sent[1] = LowOn
    /\ event.payload.v > node.maximum => sent[1] = HighOn

(***************************************************************************)
(* C6.  Ride to target, as claimed: once in driveLow, every evaluation     *)
(* with sensor < target reports driveLow with the low actuator on;         *)
(* symmetric for driveHigh with sensor > target.                           *)
(***************************************************************************)
C6_RideToTarget_Original ==
  (DualDeadband /\ Evaluated) =>
    /\ (pre.currentState = LowState(variant) /\ Lt(state.current, state.target)) =>
         /\ state.currentState = LowState(variant)
         /\ sent[1] = LowOn
         /\ Reports(LowState(variant))
    /\ (pre.currentState = HighState(variant) /\ Gt(state.current, state.target)) =>
         /\ state.currentState = HighState(variant)
         /\ sent[1] = HighOn
         /\ Reports(HighState(variant))

(***************************************************************************)
(* C6, amended.  Once in driveLow, every evaluation with sensor < target   *)
(* and sensor not above the maximum limit reports driveLow with the low    *)
(* actuator on; once in driveHigh, every evaluation with sensor > target   *)
(* and sensor not below the minimum limit reports driveHigh with the high  *)
(* actuator on.                                                            *)
(***************************************************************************)
C6_RideToTarget ==
  (DualDeadband /\ Evaluated) =>
    /\ (/\ pre.currentState = LowState(variant)
        /\ Lt(state.current, state.target)
        /\ ~Gt(state.current, Num(node.maximum))) =>
         /\ state.currentState = LowState(variant)
         /\ sent[1] = LowOn
         /\ Reports(LowState(variant))
    /\ (/\ pre.currentState = HighState(variant)
        /\ Gt(state.current, state.target)
        /\ ~Lt(state.current, Num(node.minimum))) =>
         /\ state.currentState = HighState(variant)
         /\ sent[1] = HighOn
         /\ Reports(HighState(variant))

\* an evaluation that keeps driving low with the sensor back inside the deadband
C6_Witness ==
  /\ DualDeadband /\ Evaluated /\ event.topic = "sensor"
  /\ pre.currentState = LowState(variant)
  /\ Lt(state.current, state.target)
  /\ ~Lt(state.current, Minus(state.target, Num(node.deadband)))
  /\ ~Lt(state.current, Num(node.minimum))
  /\ state.currentState = LowState(variant)

(***************************************************************************)
(* C7.  With sensor and target received (numbers) and outside open-loop,   *)
(* every evaluation yields the state, override and outputs of the          *)
(* reference machine; replaying deadband 1, limits 10/50, target 25,       *)
(* sensors 24, 23.5, 23, 25.5, 26 yields the reference's state sequence.   *)
(***************************************************************************)
\* the scenario in units of half a degree
ReplayNode ==
  [deadband |-> 2, minimum |-> 20, maximum |-> 100, watchdogTimeout |-> 60,
   watchdogSeverity |-> "warning"]

ReplayScenario == [target |-> 50, sensors |-> <<48, 47, 46, 51, 52>>]

ReplayTarget == ReplayScenario.target

ReplaySensors == ReplayScenario.sensors

RECURSIVE CodeReplay(_, _)
CodeReplay(st, sensors) ==
  IF sensors = <<>> THEN <<>>
  ELSE LET r == calculateControl([st EXCEPT !.current = Num(Head(sensors))],
                                 ReplayNode, "temperature")
       IN  <<ModeOf("temperature", r.control.state)>> \o CodeReplay(r.state, Tail(sensors))

RECURSIVE RefReplay(_, _)
RefReplay(mode, sensors) ==
  IF sensors = <<>> THEN <<>>
  ELSE LET r == RefEvaluate(mode, Head(sensors), ReplayTarget, ReplayNode.deadband,
                            ReplayNode.minimum, ReplayNode.maximum)
       IN  <<r.mode>> \o RefReplay(r.mode, Tail(sensors))

C7_MatchesReference ==
  /\ (DualDeadband /\ Evaluated /\ IsNum(state.current) /\ IsNum(state.target)) =>
       LET r == RefEvaluate(ModeOf(variant, pre.currentState), state.current.v,
                            state.target.v, node.deadband, node.minimum, node.maximum)
       IN  /\ ModeOf(variant, state.currentState) = r.mode
           /\ state.safetyOverride = r.override
           /\ sent[1] = RefCommand(r.mode)
           /\ Reports(state.currentState)
  /\ CodeReplay([InitialState("temperature") EXCEPT !.target = Num(ReplayTarget)],
                ReplaySensors)
       = RefReplay("idle", ReplaySensors)

\* an evaluation that rides high: sensor above the target, inside the deadband
C7_Witness ==
  /\ DualDeadband /\ Evaluated
  /\ IsNum(state.current) /\ IsNum(state.target)
  /\ pre.currentState = HighState(variant)
  /\ state.current.v > state.target.v
  /\ state.current.v <= state.target.v + node.deadband
  /\ state.current.v <= node.maximum
  /\ state.currentState = HighState(variant)

(***************************************************************************)
(* C8.  A sensor or target message whose payload is not of type number is  *)
(* ignored: the controller state is unchanged, nothing is sent, and the    *)
(* watchdog timer keeps its deadline.                                      *)
(***************************************************************************)
C8_NonNumericIgnored ==
  [][(DualDeadband /\ event'.kind = "input" /\ typeof(event'.payload) # "number") =>
       /\ state' = state
       /\ watchdog' = watchdog
       /\ sent' = <<NoMsg, NoMsg>>
       /\ lastCommand' = lastCommand
       /\ statusLog' = statusLog
       /\ watchdogFires' = watchdogFires]_vars

\* a non-numeric sensor message handled while the watchdog is running and an
\* actuator is on
C8_Witness ==
  /\ DualDeadband /\ InputRejected /\ event.topic = "sensor"
  /\ watchdog >= 0
  /\ lastCommand \in {LowOn, HighOn}

(***************************************************************************)
(* C10.  safetyOverride = 'min' implies currentState is the low-drive      *)
(* state and safetyOverride = 'max' implies it is the high-drive state.    *)
(***************************************************************************)
C10_OverrideMatchesState ==
  DualDeadband =>
    /\ state.safetyOverride = "min" => state.currentState = LowState(variant)
    /\ state.safetyOverride = "max" => state.currentState = HighState(variant)

\* an override still recorded after a watchdog fire and a target update
C10_Witness ==
  /\ DualDeadband /\ state.safetyOverride = "max" /\ state.openLoopMode
  /\ event.kind = "input" /\ event.topic = "target" /\ IsNum(event.payload)

(***************************************************************************)
(* C9.  Edge-triggered status: in the edge-triggered humidity controller   *)
(* and in the precipitation controller no two consecutive status messages  *)
(* sent on the status output carry the same state.                         *)
(***************************************************************************)
C9_EdgeTriggeredStatus ==
  variant \in {"humidityEdge", "precipitation"} =>
    (statusLog[2] = "none" \/ statusLog[1] # statusLog[2])

\* an evaluation of the edge-triggered controller that computed the state of
\* the last status sent and therefore sent no status
C9_Witness ==
  /\ variant = "humidityEdge" /\ Evaluated
  /\ sent[2] = NoMsg
  /\ sent[1] = LowOn
  /\ statusLog[2] = LowState(variant)

(***************************************************************************)
(* The circadian core: targets.                                            *)
(***************************************************************************)
Circadian == variant = "circadian"

NumericBounds == IsNum(state.absoluteMin) /\ IsNum(state.absoluteMax)

RangeLow == IF state.absoluteMin.v < state.absoluteMax.v
              THEN state.absoluteMin.v ELSE state.absoluteMax.v

RangeHigh == IF state.absoluteMin.v < state.absoluteMax.v
               THEN state.absoluteMax.v ELSE state.absoluteMin.v

\* the target payloads the last reaction emitted
EmittedTargets == {sent[i][1].payload : i \in 1..Len(sent)}

\* C11: with numeric bounds, every target the rhythm generator emits, after
\* rounding to the configured decimals, lies between the smaller and the
\* larger of absoluteMin and absoluteMax.
C11_TargetWithinBounds ==
  (Circadian /\ NumericBounds) =>
    \A p \in EmittedTargets : IsNum(p) /\ RangeLow <= p.v /\ p.v <= RangeHigh

\* the midpoint of the bounds, as an exact fraction
Midpoint == Rat(state.absoluteMin.v + state.absoluteMax.v, 2)

\* C12: configured with seasonalSwing = 0 and diurnalSwing = 0, the rhythm
\* generator computes the midpoint of the bounds as target at every
\* simulated time, and emits the midpoint rounded to the configured decimals.
C12_ZeroSwingMidpoint ==
  (Circadian /\ node.config.seasonalSwing = 0 /\ node.config.diurnalSwing = 0
     /\ NumericBounds) =>
    /\ calculateTarget(state, node, now).n * 2
         = Midpoint.n * calculateTarget(state, node, now).d
    /\ \A p \in EmittedTargets : p = ToFixed(Midpoint, node.decimals)

\* C13: while absoluteMin or absoluteMax is unset, no reaction of the rhythm
\* generator (input or tick) emits a target.
C13_NoTargetWithoutBounds ==
  (Circadian /\ (state.absoluteMin = undefined \/ state.absoluteMax = undefined))
    => sent = <<>>

C13_Witness ==
  /\ Circadian /\ state.absoluteMin # undefined /\ state.absoluteMax = undefined
  /\ event.kind = "tick"

\* C14: an accepted bound update that leaves both bounds set emits exactly
\* one target in its reaction, and every tick after it emits exactly one.
C14_OneEmissionPerUpdate ==
  (Circadian /\ state.absoluteMin # undefined /\ state.absoluteMax # undefined) =>
    /\ (event.kind = "input" /\ event.topic = "absoluteMin"
          /\ typeof(event.payload) = "number") => Len(sent) = 1
    /\ (event.kind = "input" /\ event.topic = "absoluteMax"
          /\ typeof(event.payload) = "number") => Len(sent) = 1
    /\ (event.kind = "input" /\ typeof(event.payload) = "object"
          /\ typeof(event.payload.min) = "number"
          /\ typeof(event.payload.max) = "number") => Len(sent) = 1
    /\ event.kind = "tick" => Len(sent) = 1

(***************************************************************************)
(* The precipitation controllers: the pump.                                *)
(***************************************************************************)
Precipitation == variant \in PrecipitationVariants

\* how long the pump switched on last has to stay on
PumpTime == TimerDelay(pumpLog.duration)

\* C15: the pump is switched off by the off-timer exactly the duration in
\* effect at switch-on after it was switched on (a duration under 1 ms runs
\* as 1 ms), messages received meanwhile do not move that time, and only
\* the off-timer or close switch the pump off.
C15_PumpOnForDuration ==
  Precipitation =>
    /\ event.kind = "off" => sent[1] = Pump("off") /\ now - pumpLog.onAt = PumpTime
    /\ (lastCommand = Pump("on") /\ ~closed) => now - pumpLog.onAt <= PumpTime
    /\ event.kind \in {"tick", "input"} => sent[1] # Pump("off")

C15_Witness ==
  /\ Precipitation /\ event.kind = "off" /\ sent[1] = Pump("off")
  /\ pumpLog.duration # state.durationMs

\* C16: when the pump is switched on again, at least the interval in effect
\* at that moment has passed since it was switched on the time before.
C16_GapAtLeastInterval ==
  (Precipitation /\ event.kind = "tick" /\ sent[1] = Pump("on")
     /\ pumpLog.previousOnAt # -1)
    => /\ pumpLog.onAt = now
       /\ now - pumpLog.previousOnAt >= state.intervalMs

C16_Witness ==
  /\ Precipitation /\ event.kind = "tick" /\ sent[1] = Pump("on")
  /\ pumpLog.previousOnAt # -1
  /\ state.intervalMs # PrecipitationInitialState(node).intervalMs

\* C17: pumpActive is true exactly when the off-timer is pending.
C17_ActiveIffOffTimer ==
  Precipitation => (state.pumpActive <=> (state.offTimer /\ offTimer >= 0))

C17_Witness == Precipitation /\ state.pumpActive /\ offTimer > 0 /\ event.kind = "input"

\* C18: a close while the pump is active sends {pump:'off'}, and after close
\* the last pump command is 'off' unless no pump command was ever sent.
C18_CloseSwitchesPumpOff ==
  /\ [](Precipitation /\ closed => lastCommand \in {NoMsg, Pump("off")})
  /\ [][(Precipitation /\ state.pumpActive /\ ~closed /\ closed')
          => sent'[1] = Pump("off")]_vars

C18_Witness ==
  /\ Precipitation /\ closed /\ event.kind = "close" /\ sent[1] = Pump("off")
  /\ pumpLog.onAt # -1

\* C19: after the close of a dual-deadband controller the last command sent
\* has both outputs off (or no command was ever sent).
C19_CloseDrivesOutputsOff ==
  (DualDeadband /\ closed) => lastCommand \in {NoMsg, AllOff}

\* C20 as stated: with nightDisable, an evaluation tick during the night
\* sends no {pump:'on'}, leaves lastPrecipitation and pumpActive unchanged,
\* and the status reported after it is 'paused'.
C20_NightTick_Original ==
  [][(variant = "precipitation" /\ node.nightDisable /\ state.night
        /\ event'.kind = "tick")
      => /\ sent'[1] # Pump("on")
         /\ state'.lastPrecipitation = state.lastPrecipitation
         /\ state'.pumpActive = state.pumpActive
         /\ statusLog'[2] = "paused" /\ state'.previousState = "paused"]_vars

\* C20: with nightDisable, an evaluation tick during the night sends no
\* {pump:'on'} and leaves lastPrecipitation and pumpActive unchanged; when
\* the pump is not active the status reported after it is 'paused'.
C20_NightTick ==
  [][(variant = "precipitation" /\ node.nightDisable /\ state.night
        /\ event'.kind = "tick")
      => /\ sent'[1] # Pump("on")
         /\ state'.lastPrecipitation = state.lastPrecipitation
         /\ state'.pumpActive = state.pumpActive
         /\ ~state.pumpActive =>
              statusLog'[2] = "paused" /\ state'.previousState = "paused"]_vars

C20_Witness ==
  /\ variant = "precipitation" /\ node.nightDisable /\ state.night
  /\ event.kind = "tick" /\ ~state.pumpActive
  /\ state.lastPrecipitation # Null /\ statusLog[1] = "waiting" /\ statusLog[2] = "paused"

(***************************************************************************)
(* The lighting controller.                                                *)
(***************************************************************************)
Lighting == variant = "lighting"

\* the last step handled a numeric input (NaN left aside)
LightingValue == Lighting /\ event.kind = "input" /\ IsNum(event.payload)

ZeroOutput ==
  IF node.mode = "digital" THEN sent[1].lighting = "off" ELSE sent[1].lighting = Num(0)

FullOutput ==
  IF node.mode = "digital" THEN sent[1].lighting = "on" ELSE sent[1].lighting = Num(1000)

BelowCutOff ==
  \/ event.payload.v < node.config.bottomCutOff
  \/ event.payload.v < node.bottomCutOff

\* C21 as stated: for every configuration, an input below bottomCutOff gives
\* the output 0 (analog) or 'off' (digital).
C21_BelowCutOffIsZero_Original ==
  (LightingValue /\ BelowCutOff) => ZeroOutput

\* C21: an input below bottomCutOff gives the output 0 or 'off', unless a
\* schedule in 'guaranteed' mode forces the output, which is then 100 or 'on'.
C21_BelowCutOffIsZero ==
  (LightingValue /\ BelowCutOff) =>
    IF sent[2].scheduleActive /\ node.scheduleMode = "guaranteed"
      THEN FullOutput /\ isWithinSchedule(node, now)
      ELSE ZeroOutput

C21_Witness ==
  /\ LightingValue /\ BelowCutOff /\ event.payload.v > 0 /\ ZeroOutput
  /\ node.scheduleMode = "guaranteed" /\ node.scheduleTime1.set

\* the output the specification gives for input v, cut-off c and gain g (in
\* tenths), as a fraction
RefLightingValue(v, c, g) ==
  LET n == IF v < c THEN 0 ELSE (v - c) * 100 * g
      d == (100 - c) * 10
  IN  IF n > 100 * d THEN Rat(100, 1) ELSE IF n < 0 THEN Rat(0, 1) ELSE Rat(n, d)

\* C22: without a schedule and for an input in [0, 100], the output is
\* clamp(rectify(v) * gain, 0, 100) computed with the configured bottomCutOff
\* and gain as given (0 included), rounded to one decimal in analog mode and
\* 'on' exactly when positive in digital mode.
C22_MatchesFormula ==
  (LightingValue /\ ~node.scheduleTime1.set
     /\ event.payload.v >= 0 /\ event.payload.v <= 100) =>
    LET r == RefLightingValue(event.payload.v, node.config.bottomCutOff, node.config.gain)
    IN  IF node.mode = "digital"
          THEN sent[1].lighting = (IF r.n > 0 THEN "on" ELSE "off")
          ELSE sent[1].lighting = Num((20 * r.n + r.d) \div (2 * r.d))

\* the half-open window [t1, t2) of the schedule, wrapping over midnight
InWindow ==
  LET t1 == node.scheduleTime1.hours * 60 + node.scheduleTime1.minutes
      t2 == node.scheduleTime2.hours * 60 + node.scheduleTime2.minutes
  IN  IF t1 <= t2 THEN t1 <= now /\ now < t2 ELSE now >= t1 \/ now < t2

\* C23: in 'allowed' mode the output is 0 at every minute outside [t1, t2),
\* minute t2 included; in 'guaranteed' mode the output is forced to 100 at
\* the minutes inside [t1, t2) and at no other minute.
C23_HalfOpenWindow ==
  (LightingValue /\ node.scheduleTime1.set /\ node.scheduleTime2.set) =>
    /\ (node.scheduleMode = "allowed" /\ ~InWindow) => ZeroOutput
    /\ node.scheduleMode = "guaranteed" => (sent[2].scheduleActive <=> InWindow)

\* C24: an input whose payload is not of type number sends nothing and
\* changes nothing but the node's status badge, and the output for a
\* numeric input depends on the configuration, the input and the clock only.
C24_InvalidInputRejected ==
  /\ [][(Lighting /\ event'.kind = "input" /\ typeof(event'.payload) # "number")
          => /\ sent' = <<NoMsg, NoMsg>>
             /\ state'.status = "invalid input"
             /\ <<node, lastCommand, statusLog, now>>' = <<node, lastCommand, statusLog, now>>]_vars
  /\ [](Lighting /\ event.kind = "input" /\ typeof(event.payload) = "number"
          => sent = LightingOutput(node, event.payload, now))

C24_Witness ==
  /\ Lighting /\ event.kind = "input" /\ event.payload = StringValue
  /\ lastCommand # NoMsg /\ sent = <<NoMsg, NoMsg>>

(***************************************************************************)
(* C25  At most one timer is pending per purpose: a timer is never started *)
(* for a purpose (the watchdog of a deadband controller, the tick interval *)
(* of the rhythm generator or of the precipitation controller, the pump's  *)
(* off-timer) while an earlier timer for that purpose is still pending and *)
(* has not been cancelled, and a pending timer is the one its handle names.*)
(***************************************************************************)
C25_OneTimerPerPurpose ==
  /\ ~timerLog.superseded
  /\ (variant \in Variants /\ watchdog >= 0) => state.watchdogTimer
  /\ (Circadian /\ tickTimer >= 0) => state.intervalId

\* a sensor reading restarted a watchdog that was still pending
C25_Witness ==
  /\ variant \in Variants
  /\ event.kind = "input"
  /\ timerLog.replaced
  /\ watchdog = WatchdogDelay(node)

(***************************************************************************)
(* C26  No reaction to a message or a timer raises a fault; in particular  *)
(* a rhythm generator whose location configuration could not be resolved   *)
(* handles bound messages and tick fires without throwing.                 *)
(***************************************************************************)
C26_NoUnhandledFault == Circadian => ~state.fault

(***************************************************************************)
(* C27  In the circadian core of src/nodes/circadian-core, once both       *)
(* bounds are set the tick timer is running until close, so that a target  *)
(* is emitted once per tick interval without any further bound message.    *)
(***************************************************************************)
CircadianCore == variant = "circadianCore"

C27_TickTimerRunning ==
  (CircadianCore /\ BothSet(state) /\ ~closed /\ ~state.fault) => tickTimer >= 0

(***************************************************************************)
(* C28  After close no timer-driven reaction runs in any controller: no    *)
(* timer is pending once the node is closed, and no step of a closed node  *)
(* is a watchdog fire, a tick or an off-timer fire.                        *)
(***************************************************************************)
TimerReaction == event.kind \in {"watchdog", "tick", "off"}

C28_NoTimerAfterClose ==
  /\ [](closed => (watchdog < 0 /\ tickTimer < 0 /\ offTimer < 0))
  /\ [][closed => ~TimerReaction']_vars

\* a deadband controller closed with its watchdog pending; more than the
\* watchdog delay has passed since the last reading and it has not fired
C28_Witness ==
  /\ DualDeadband
  /\ closed
  /\ state.current # undefined
  /\ elapsed > WatchdogDelay(node)
  /\ watchdogFires = 0

(***************************************************************************)
(* C29  Every {pump: 'on'} command is eventually followed by a             *)
(* {pump: 'off'} command, sent by the off-timer or by close, and no second *)
(* {pump: 'on'} is sent before that {pump: 'off'}.  The clock of the model *)
(* stops at MaxNow: the first part is stated for the off-timers whose      *)
(* deadline the clock reaches.                                             *)
(***************************************************************************)
PumpOn == Precipitation /\ lastCommand = Pump("on")

WithinHorizon == now + offTimer <= MaxNow

PumpOff == Precipitation /\ lastCommand = Pump("off")

C29_OnThenOff ==
  /\ (PumpOn /\ WithinHorizon) ~> PumpOff
  /\ [][(Precipitation /\ sent'[1] = Pump("on") /\ event'.kind = "tick")
          => lastCommand # Pump("on")]_vars

\* the pump was switched on, and off by its timer, and then on again
C29_Witness ==
  /\ PumpOn
  /\ pumpLog.previousOnAt >= 0
  /\ offTimer > 0

(***************************************************************************)
(* C30  The temperature and the humidity controller are the same engine up *)
(* to the naming of actuators and states: constructed with equal           *)
(* configuration values, from corresponding states they react to the same  *)
(* sensor reading, the same target and a watchdog timeout with             *)
(* corresponding states and messages, and arm the watchdog for the same    *)
(* delay.  Stated for every reachable state of the temperature controller, *)
(* which makes the two controllers correspond step by step from            *)
(* construction on.                                                        *)
(***************************************************************************)
Rename(name) ==
  CASE name = LowState("temperature")        -> LowState("humidity")
    [] name = HighState("temperature")       -> HighState("humidity")
    [] name = MinOverrideText("temperature") -> MinOverrideText("humidity")
    [] name = MaxOverrideText("temperature") -> MaxOverrideText("humidity")
    [] OTHER                                 -> name

AsHumidity(st) ==
  [st EXCEPT !.currentState = Rename(@), !.previousStatusState = Rename(@)]

AsHumidityStatus(msg) ==
  IF msg = NoMsg THEN NoMsg
  ELSE [msg EXCEPT !.state = Rename(@), !.safetyOverride = Rename(@)]

Corresponding(a, b) ==
  /\ AsHumidity(a.state) = b.state
  /\ a.out[1] = b.out[1]
  /\ AsHumidityStatus(a.out[2]) = b.out[2]

C30_SameEngine ==
  variant = "temperature" =>
    LET h  == ParseConfig("humidity", node.config)
        st == AsHumidity(state)
    IN  /\ \A p \in SensorPayloads :
             typeof(p) = "number" =>
               Corresponding(updateTemperatureResult(state, node, "temperature", p),
                             updateTemperatureResult(st, h, "humidity", p))
        /\ \A p \in TargetPayloads :
             typeof(p) = "number" =>
               Corresponding(updateTargetResult(state, node, "temperature", p),
                             updateTargetResult(st, h, "humidity", p))
        /\ WatchdogDelay(node) = WatchdogDelay(h)
        /\ AsHumidityStatus(WatchdogStatus(node, "temperature")) = WatchdogStatus(h, "humidity")

\* the same, for configurations without a 0
C30_SameEngineNonZero ==
  (variant = "temperature" /\ node.config.deadband # 0 /\ node.config.minimum # 0
     /\ node.config.maximum # 0) => C30_SameEngine

(***************************************************************************)
(* C31  The P-controller is in open-loop mode from construction until the  *)
(* first updateTemperature call: isOpenLoop is true when the constructor   *)
(* returns, and only updateTemperature sets it to false.                   *)
(***************************************************************************)
C31_OpenLoopAfterConstruction ==
  /\ []((PController /\ event.kind = "construct") => state.isOpenLoop)
  /\ [][(PController /\ state.isOpenLoop /\ ~state.isOpenLoop')
          => (event'.kind = "input" /\ event'.topic = "sensor")]_vars

(***************************************************************************)
(* C32  No actuator command emitted by a deadband controller (dual         *)
(* deadband, edge-triggered, bang-bang) has both outputs 'on'.             *)
(***************************************************************************)
BothOn(msg) == msg # NoMsg /\ msg.low = "on" /\ msg.high = "on"

C32_NeverBothOn ==
  (DualDeadband \/ BangBang) => (~BothOn(sent[1]) /\ ~BothOn(lastCommand))

\* a bang-bang controller keeps its high actuator on inside the deadband
C32_Witness ==
  /\ BangBang
  /\ event.kind = "input"
  /\ sent[1] = HighOn
  /\ IsNum(state.current) /\ IsNum(state.target)
  /\ state.current.v <= state.target.v
  /\ state.safetyOverride = "null"

(***************************************************************************)
(* C33  A watchdog fire of the temperature and the humidity controller     *)
(* changes only openLoopMode, to true: currentState, safetyOverride, the   *)
(* stored target and the stored sensor value are what they were.           *)
(***************************************************************************)
C33_WatchdogFireFrame ==
  [][(variant \in {"temperature", "humidity"} /\ event'.kind = "watchdog")
       => state' = [state EXCEPT !.openLoopMode = TRUE]]_vars

\* the watchdog fired on a controller that was not idle
C33_Witness ==
  /\ variant \in {"temperature", "humidity"}
  /\ event.kind = "watchdog"
  /\ state.openLoopMode
  /\ state.currentState # "idle"
  /\ state.current # undefined /\ state.target # undefined

(***************************************************************************)
(* C34: a target message with a payload of type number handled in          *)
(* open-loop mode changes only the stored target: nothing is sent on       *)
(* either output, openLoopMode stays set and no watchdog is started; and   *)
(* no target message, in open-loop mode or not, starts, restarts or        *)
(* cancels the watchdog.                                                   *)
(***************************************************************************)
TargetStep ==
  /\ variant \in Variants
  /\ event'.kind = "input" /\ event'.topic # "sensor"
  /\ typeof(event'.payload) = "number"

C34_TargetInOpenLoopFrame ==
  [][TargetStep =>
       /\ watchdog' = watchdog
       /\ timerLog' = timerLog
       /\ state'.watchdogTimer = state.watchdogTimer
       /\ state.openLoopMode =>
            /\ state' = [state EXCEPT !.target = event'.payload]
            /\ sent' = <<NoMsg, NoMsg>>
            /\ lastCommand' = lastCommand
            /\ statusLog' = statusLog]_vars

C34_Witness ==
  /\ variant \in Variants
  /\ event.kind = "input" /\ event.topic # "sensor"
  /\ IsNum(event.payload)
  /\ pre.openLoopMode /\ state.openLoopMode
  /\ state.current # undefined
  /\ state.target = event.payload
  /\ watchdog = -1
  /\ lastCommand = WatchdogCommand

(***************************************************************************)
(* C35: in the edge-triggered humidity controller, after every evaluation  *)
(* (_executeControlLoop) the most recent status message sent on output 2   *)
(* carries the state the evaluation computed, from the first evaluation    *)
(* after construction on.  The computed state is what emitStatus leaves    *)
(* in previousStatusState.                                                 *)
(***************************************************************************)
EdgeEvaluated == variant = "humidityEdge" /\ Evaluated

C35_LastStatusIsEvaluatedState ==
  EdgeEvaluated => statusLog[2] = state.previousStatusState

(***************************************************************************)
(* C36: in the edge-triggered humidity controller, after an evaluation     *)
(* that activates or clears a safety override the most recent status       *)
(* message sent on output 2 carries the matching safetyOverride value.     *)
(***************************************************************************)
OverrideValue(v, o) ==
  CASE o = "min" -> MinOverrideText(v)
    [] o = "max" -> MaxOverrideText(v)
    [] OTHER     -> "null"

C36_LastStatusCarriesOverride ==
  (EdgeEvaluated /\ pre.safetyOverride # state.safetyOverride)
    => statusLog[3] = OverrideValue(variant, state.safetyOverride)

(***************************************************************************)
(* C37: the edge-triggered and the non-edge-triggered humidity controller  *)
(* send the same actuator commands: constructed with equal configuration,  *)
(* from states that agree in everything but previousStatusState they react *)
(* to the same sensor reading and the same target with the same command    *)
(* and again agreeing states, and arm the watchdog for the same delay (the *)
(* command of a watchdog fire is the same literal).  Stated for every      *)
(* reachable state of the edge-triggered controller, which makes the two   *)
(* command sequences equal step by step from construction on.              *)
(***************************************************************************)
WithoutEdge(st) == [st EXCEPT !.previousStatusState = "null"]

SameCommand(a, b) ==
  /\ WithoutEdge(a.state) = b.state
  /\ a.out[1] = b.out[1]

C37_SameCommands ==
  variant = "humidityEdge" =>
    LET h  == ParseConfig("humidity", node.config)
        st == WithoutEdge(state)
    IN  /\ \A p \in SensorPayloads :
             typeof(p) = "number" =>
               SameCommand(updateTemperatureResult(state, node, "humidityEdge", p),
                           updateTemperatureResult(st, h, "humidity", p))
        /\ \A p \in TargetPayloads :
             typeof(p) = "number" =>
               SameCommand(updateTargetResult(state, node, "humidityEdge", p),
                           updateTargetResult(st, h, "humidity", p))
        /\ WatchdogDelay(node) = WatchdogDelay(h)

\* an evaluation of the edge-triggered controller that sent a command and no status
C37_Witness ==
  /\ EdgeEvaluated
  /\ sent[2] = NoMsg
  /\ sent[1] = Command("on", "off")
  /\ state.safetyOverride = "min"
  /\ pre.safetyOverride = "null"

(***************************************************************************)
(* C38: the dual-deadband controllers apply the safety limits they were    *)
(* configured with, 0 included: after an evaluation of a numeric reading   *)
(* against a stored target the minimum override is active exactly when     *)
(* the reading is below the configured minimum, and the maximum override   *)
(* exactly when it is not and the reading is above the configured maximum. *)
(***************************************************************************)
C38_LimitsAsConfigured ==
  (variant \in Variants /\ Evaluated /\ IsNum(state.current) /\ state.target # undefined)
    => /\ state.safetyOverride = "min" <=> state.current.v < node.config.minimum
       /\ state.safetyOverride = "max" <=>
            (/\ state.current.v >= node.config.minimum
             /\ state.current.v > node.config.maximum)

(***************************************************************************)
(* C39: a runtime update of the precipitation controller uses the units of *)
(* the configuration: after an 'interval' message with the finite number p *)
(* the interval in effect is the one a controller constructed with         *)
(* interval = p starts with, and after a 'duration' message with d the     *)
(* pump-on time is the one a controller constructed with duration = d      *)
(* starts with.                                                            *)
(***************************************************************************)
ConstructedWith(field, value) ==
  PrecipitationInitialState(
    PrecipitationParseConfig([node EXCEPT ![field] = value]))

C39_RuntimeUnits ==
  (variant \in PrecipitationVariants /\ event.kind = "input" /\ IsNum(event.payload))
    => /\ event.topic = "interval" =>
            state.intervalMs = ConstructedWith("interval", event.payload.v).intervalMs
       /\ event.topic = "duration" =>
            state.durationMs = ConstructedWith("duration", event.payload.v).durationMs

(***************************************************************************)
(* C40: in the bang-bang controllers an evaluation with the sensor inside  *)
(* [target - deadband, target + deadband] keeps the previous actuator      *)
(* state, and once the controller has left idle every later command has    *)
(* exactly one actuator on.  As stated, for every evaluation inside the    *)
(* band and every command: C40_KeepsStateInBand.  For evaluations inside   *)
(* the band that breach no safety limit, and for the commands evaluations  *)
(* send: C40_KeepsStateWithinLimits.                                       *)
(***************************************************************************)
ExactlyOneOn(msg) == msg # NoMsg /\ ((msg.low = "on") # (msg.high = "on"))

\* the reading is a number inside the band around the target
InBand(st, n, v) ==
  LET deadband == Configured(v, Num(n.deadband), Num(DefaultDeadband(Family(v)))).v
  IN  /\ IsNum(st.current) /\ IsNum(st.target)
      /\ st.current.v >= st.target.v - deadband
      /\ st.current.v <= st.target.v + deadband

\* the reading breaches neither safety limit the controller applies
WithinLimits(st, n, v) ==
  /\ ~Lt(st.current, Configured(v, Num(n.minimum), Num(DefaultMinimum(Family(v)))))
  /\ ~Gt(st.current, Configured(v, Num(n.maximum), Num(DefaultMaximum(Family(v)))))

\* the step is an evaluation of a bang-bang controller
BangBangEvaluation == BangBang /\ event'.kind = "input" /\ sent'[1] # NoMsg

\* the step's command is the one of the state the controller was in
KeepsActuatorState ==
  /\ state'.currentState = state.currentState
  /\ sent'[1].low = "on" <=> state.currentState = LowState(Family(variant))
  /\ sent'[1].high = "on" <=> state.currentState = HighState(Family(variant))

C40_KeepsStateInBand ==
  /\ [][(BangBangEvaluation /\ InBand(state', node, variant)) => KeepsActuatorState]_vars
  /\ []((BangBang /\ state.currentState # "idle" /\ sent[1] # NoMsg)
          => ExactlyOneOn(sent[1]))

C40_KeepsStateWithinLimits ==
  /\ [][(BangBangEvaluation /\ InBand(state', node, variant)
           /\ WithinLimits(state', node, variant)) => KeepsActuatorState]_vars
  /\ []((BangBang /\ state.currentState # "idle" /\ event.kind = "input"
           /\ sent[1] # NoMsg)
          => ExactlyOneOn(sent[1]))

\* an evaluation inside the band kept the low actuator on above the target
C40_Witness ==
  /\ BangBang
  /\ event.kind = "input"
  /\ InBand(state, node, variant) /\ WithinLimits(state, node, variant)
  /\ state.current.v > state.target.v
  /\ pre.currentState = LowState(Family(variant))
  /\ state.currentState = LowState(Family(variant))
  /\ sent[1] = Command("on", "off")

====
